---------------------------- MODULE Spec2Model ----------------------------
(***************************************************************************)
(* A model of dir, the directory lister of robomac/dir: the file-selection *)
(* and content-search engine (fileMeetsConditions and the text searches),  *)
(* the archive enumerators and the traversal driver list_directory.        *)
(*                                                                         *)
(* File names, extensions and file contents are TLA+ strings; a string is  *)
(* taken apart with Len and SubSeq and put together with \o, so the Go     *)
(* string functions are modelled by what they compute.  Sizes are counted  *)
(* in bytes of these (short) contents, and the three size constants of the *)
(* content search (chunkSize, overlapSize, MaxEntryBytes) are scaled down  *)
(* in proportion so that files around each threshold exist in the model.   *)
(***************************************************************************)
EXTENDS Integers, Sequences, FiniteSets, TLC

(***************************************************************************)
(* Strings.                                                                *)
(***************************************************************************)

\* The bytes the model uses, in ascending byte order.  "#" stands for the
\* zero byte of a freshly made buffer.
ByteOrder == "\n#%*./0123456789?ABCDEFGHIJKLMNOPQRSTUVWXYZ_abcdefghijklmnopqrstuvwxyz"

UpperLetters == "ABCDEFGHIJKLMNOPQRSTUVWXYZ"

LowerLetters == "abcdefghijklmnopqrstuvwxyz"

ZeroByte == "#"

CharAt(s, i) == SubSeq(s, i, i)

\* strings.Index(s, sub) >= 0
Contains(s, sub) ==
    \E i \in 1..(Len(s) - Len(sub) + 1) : SubSeq(s, i, i + Len(sub) - 1) = sub

\* 1-based position of the last sub in s, 0 when there is none
\* (strings.LastIndex is this minus one).
LastIndex1(s, sub) ==
    LET hits == {i \in 1..(Len(s) - Len(sub) + 1) : SubSeq(s, i, i + Len(sub) - 1) = sub}
    IN  IF hits = {} THEN 0 ELSE CHOOSE i \in hits : \A j \in hits : j <= i

IndexIn(alphabet, c) ==
    LET hits == {i \in 1..Len(alphabet) : CharAt(alphabet, i) = c}
    IN  IF hits = {} THEN 0 ELSE CHOOSE i \in hits : TRUE

UpperChar(c) ==
    LET i == IndexIn(LowerLetters, c) IN IF i = 0 THEN c ELSE CharAt(UpperLetters, i)

LowerChar(c) ==
    LET i == IndexIn(UpperLetters, c) IN IF i = 0 THEN c ELSE CharAt(LowerLetters, i)

RECURSIVE ToUpper(_)
ToUpper(s) ==
    IF Len(s) = 0 THEN "" ELSE UpperChar(CharAt(s, 1)) \o ToUpper(SubSeq(s, 2, Len(s)))

RECURSIVE ToLower(_)
ToLower(s) ==
    IF Len(s) = 0 THEN "" ELSE LowerChar(CharAt(s, 1)) \o ToLower(SubSeq(s, 2, Len(s)))

\* Go's s < t on strings: bytewise lexicographic.
RECURSIVE StrLess(_, _)
StrLess(s, t) ==
    IF Len(t) = 0 THEN FALSE
    ELSE IF Len(s) = 0 THEN TRUE
    ELSE IF CharAt(s, 1) = CharAt(t, 1)
         THEN StrLess(SubSeq(s, 2, Len(s)), SubSeq(t, 2, Len(t)))
         ELSE IndexIn(ByteOrder, CharAt(s, 1)) < IndexIn(ByteOrder, CharAt(t, 1))

ternaryString(condition, s1, s2) == IF condition THEN s1 ELSE s2

\* n copies of the byte c
RECURSIVE Repeat(_, _)
Repeat(c, n) == IF n <= 0 THEN "" ELSE c \o Repeat(c, n - 1)

\* filepath.Join(dir, name)
Join(dir, name) == dir \o "/" \o name

(***************************************************************************)
(* File types and the extension tables.                                    *)
(***************************************************************************)

NONE == "None"

AUDIO == "Audio"

ARCHIVE == "Archive"

IMAGE == "Image"

VIDEO == "Video"

DOCUMENT == "Document"

DATA == "Data"

CONFIG == "Configuration"

CODE == "Source Code"

DIRECTORY == "Directory"

EXECUTABLE == "Executable"

SYMLINK == "SymLink"

HIDDEN == "Hidden"

DEFAULT == "Default"

\* The Filetype values AUDIO..CODE in iota order: the order FileType() tries them.
ExtensionTypes == <<AUDIO, ARCHIVE, IMAGE, VIDEO, DOCUMENT, DATA, CONFIG, CODE>>

Extensions(ft) ==
    CASE ft = AUDIO -> ",aac,au,flac,mid,midi,mka,mp3,mpc,ogg,ra,wav,axa,oga,opus,spx,xspf,"
      [] ft = ARCHIVE -> ",7z,ace,apk,arj,bz,bz2,cpio,deb,dmg,dz,gz,jar,lz,lzh,lzma,msi,rar,rpm,rz,tar,taz,tbz,tbz2,tgz,tlz,txz,tz,xz,z,Z,zip,zoo,"
      [] ft = IMAGE -> ",bmp,cgm,dib,dl,emf,gif,gl,jpeg,jpg,mng,pbm,pcx,pdn,pgm,png,ppm,svg,svgz,tga,tif,tiff,xbm,xcf,xpm,xwd,"
      [] ft = VIDEO -> ",3g2,3gp,anx,asf,avi,axv,flc,fli,flv,m2ts,m2v,m4v,mkv,mov,mp4,mp4v,mpeg,mpg,mts,nuv,ogm,ogv,ogx,qt,rm,rmvb,ts,vob,webm,wmv,yuv,"
      [] ft = DOCUMENT -> ",doc,docx,ebk,epub,html,htm,markdown,mbox,mbp,md,mht,mhtml,mobi,msg,odt,ofx,one,pages,pdf,ppt,pptx,ps,pub,rtf,tex,txt,vsdx,xls,xlsx,"
      [] ft = DATA -> ",cdb,csv,dat,db3,dbf,graphql,json,log,m3u8,rpt,sdf,sql,xml,"
      [] ft = CONFIG -> ",adp,ant,cfg,confit,ini,prefs,rc,tcl,yaml,"
      [] ft = CODE -> ",ahk,applescript,asm,au3,bas,bash,bat,c,cmake,cmd,coffee,cpp,cs,cxx,dockerfile,elf,es,exe,go,gradle,groovy,gvy,h,hpp,hxx,inc,ino,java,js,kt,ktm,kts,lua,m,mak,mm,perl,ph,php,pl,pp,ps1,psm1,py,rake,rb,rbw,rbuild,rbx,rs,ru,ruby,scpt,sh,ts,tsx,v,vb,vbs,vhd,vhdl,zsh,"
      [] OTHER -> ""

FileTypeSortOrder(ft) ==
    CASE ft = DIRECTORY -> 0
      [] ft = HIDDEN -> 1
      [] ft = NONE -> 2
      [] ft = DEFAULT -> 3
      [] ft = CODE -> 4
      [] ft = EXECUTABLE -> 5
      [] ft = CONFIG -> 6
      [] ft = DATA -> 7
      [] ft = DOCUMENT -> 8
      [] ft = AUDIO -> 9
      [] ft = IMAGE -> 10
      [] ft = VIDEO -> 11
      [] ft = ARCHIVE -> 12
      [] OTHER -> 0

(***************************************************************************)
(* The file system the program runs on.  A directory is the sequence of    *)
(* its entries in the order ReadDir returns them (not sorted); an archive  *)
(* is the sequence of its entries in the order of its directory or stream. *)
(* raw is the bytes of a file; its Size is their number.                   *)
(***************************************************************************)

RegularMode == 420   \* 0644

ExecutableMode == 493   \* 0755

\* A file that was written once and not read since: created, modified and
\* accessed at one time.
DiskFile(name, mode, modified, raw) ==
    [Name |-> name, IsDir |-> FALSE, Mode |-> mode, Modified |-> modified,
     Created |-> modified, Accessed |-> modified, Size |-> Len(raw), raw |-> raw]

DiskDir(name, modified) ==
    [Name |-> name, IsDir |-> TRUE, Mode |-> ExecutableMode, Modified |-> modified,
     Created |-> modified, Accessed |-> modified, Size |-> 0, raw |-> ""]

\* The entry with other times of creation and of last access.
Touched(entry, created, accessed) ==
    [entry EXCEPT !.Created = created, !.Accessed = accessed]

\* A part of a ZIP container; ok is FALSE when the part cannot be opened.
ZipPart(name, raw, ok) == [Name |-> name, raw |-> raw, ok |-> ok]

\* The unzipped parts of a file that is a ZIP container (an Office document),
\* by its bytes; ok is FALSE when zip.OpenReader fails on these bytes.
UnzipBytes(raw) ==
    CASE raw = "PK1" -> [ok |-> TRUE, parts |-> <<ZipPart("rels.xml", "cc", TRUE),
                                                   ZipPart("document.xml", "xab\nab", TRUE)>>]
      [] raw = "PK2" -> [ok |-> TRUE, parts |-> <<ZipPart("document.xml", "cc", TRUE)>>]
      [] raw = "PKab" -> [ok |-> TRUE, parts |-> <<ZipPart("document.xml", "cc", TRUE)>>]
      [] raw = "abPK" -> [ok |-> TRUE, parts |-> <<ZipPart("document.xml", "cc", FALSE)>>]
      [] raw = "PK4" -> [ok |-> TRUE, parts |-> <<ZipPart("document.xml", "ab", TRUE),
                                                   ZipPart("media.bin", "cc", FALSE)>>]
      [] OTHER -> [ok |-> FALSE, parts |-> <<>>]

\* What pdftotext writes for a file of these bytes; ok is FALSE when the run fails.
PdftotextOutput(raw) ==
    CASE raw = "%1" -> [ok |-> TRUE, text |-> "c\nxaby"]
      [] raw = "%2" -> [ok |-> TRUE, text |-> "cc"]
      [] raw = "%ab" -> [ok |-> TRUE, text |-> "ab"]
      [] OTHER -> [ok |-> FALSE, text |-> ""]

RootDir == "/r"

SubDir == "/r/sub"

\* The directory tree of the traversal specification.
TreeDisk ==
    (RootDir :> << DiskFile("notes.txt", RegularMode, 5, "xab\n"),
                   DiskDir("sub", 3),
                   DiskFile("pack.zip", RegularMode, 4, "PK2"),
                   DiskFile("report.pdf", RegularMode, 2, "%ab"),
                   DiskFile("memo.docx", RegularMode, 7, "PK1"),
                   DiskFile("data.tgz", RegularMode, 6, "gz"),
                   DiskFile("big.7z", RegularMode, 1, "7z"),
                   DiskFile("bad.zip", RegularMode, 8, "??") >>)
    @@ (SubDir :> << DiskFile("scan.pdf", RegularMode, 2, "%1"),
                     DiskFile("deep.txt", ExecutableMode, 1, "ab"),
                     DiskFile("in.zip", RegularMode, 3, "PK2"),
                     DiskFile("stale.txt", RegularMode, 4, "cbcca"),
                     DiskFile("form.xlsx", RegularMode, 5, "PKab"),
                     DiskFile("torn.docx", RegularMode, 6, "xab"),
                     DiskFile("lock.docx", RegularMode, 7, "abPK"),
                     DiskFile("half.pptx", RegularMode, 8, "PK4"),
                     DiskFile("split.txt", RegularMode, 9, "cccab") >>)

ArchiveEntry(name, isDir, modified, raw) ==
    [Name |-> name, IsDir |-> isDir, Mode |-> RegularMode, Modified |-> modified,
     Size |-> Len(raw), raw |-> raw]

\* The archives of the tree: whether the file opens as an archive of its
\* format, and its entries.
ArchiveFile(path) ==
    CASE path = "/r/pack.zip" ->
           [ok |-> TRUE,
            entries |-> << ArchiveEntry("zeta.txt", FALSE, 4, "ab"),
                           ArchiveEntry("docs", TRUE, 4, ""),
                           ArchiveEntry("alpha.txt", FALSE, 2, "cc"),
                           ArchiveEntry("paper.pdf", FALSE, 3, "%1"),
                           ArchiveEntry("huge.bin", FALSE, 1, "ccccccab"),
                           ArchiveEntry("deck.pptx", FALSE, 5, "PK1") >>]
      [] path = "/r/data.tgz" ->
           [ok |-> TRUE,
            entries |-> << ArchiveEntry("zulu.txt", FALSE, 1, "ab"),
                           ArchiveEntry("logs", TRUE, 2, ""),
                           ArchiveEntry("huge.log", FALSE, 2, "abcccccc"),
                           ArchiveEntry("lost.txt", FALSE, 4, "ab"),
                           ArchiveEntry("alfa.txt", FALSE, 3, "cab") >>]
      [] path = "/r/big.7z" ->
           [ok |-> TRUE,
            entries |-> << ArchiveEntry("one.txt", FALSE, 3, "ab"),
                           ArchiveEntry("dir", TRUE, 3, ""),
                           ArchiveEntry("huge.bin", FALSE, 2, "cccabccc"),
                           ArchiveEntry("lost.txt", FALSE, 1, "ab"),
                           ArchiveEntry("last.pdf", FALSE, 4, "%ab") >>]
      [] path = "/r/sub/in.zip" ->
           [ok |-> TRUE,
            entries |-> << ArchiveEntry("note.txt", FALSE, 1, "ab"),
                           ArchiveEntry("form.xlsx", FALSE, 2, "PKab"),
                           ArchiveEntry("torn.docx", FALSE, 3, "xab"),
                           ArchiveEntry("junk.pdf", FALSE, 4, "ab"),
                           ArchiveEntry("inner.zip", FALSE, 5, "cc"),
                           ArchiveEntry("nest", TRUE, 6, "") >>]
      [] path = "/r/reel.zip" ->
           [ok |-> TRUE,
            entries |-> << ArchiveEntry("take.mov", FALSE, 2, "ab"),
                           ArchiveEntry("b.mov", FALSE, 1, "ab"),
                           ArchiveEntry("cast.txt", FALSE, 3, "ab") >>]
      [] path = "/r/Box.zip" ->
           [ok |-> TRUE, entries |-> << ArchiveEntry("lid.txt", FALSE, 1, "ab") >>]
      [] path = "/r/vault.7z" ->
           [ok |-> TRUE,
            entries |-> << ArchiveEntry("key.txt", FALSE, 2, "ab"),
                           ArchiveEntry("map.txt", FALSE, 1, "cc") >>]
      [] OTHER -> [ok |-> FALSE, entries |-> <<>>]

\* The password an archive is encrypted with, headers included; "" for an
\* archive that is not encrypted.
ArchivePassword(path) == IF path = "/r/vault.7z" THEN "password" ELSE ""

\* The directory tree of the password specification: an encrypted and a
\* plain 7-Zip archive, a file that is no 7-Zip archive, and a subdirectory.
VaultDisk ==
    (RootDir :> << DiskFile("vault.7z", RegularMode, 3, "7z"),
                   DiskFile("big.7z", RegularMode, 1, "7z"),
                   DiskFile("junk.7z", RegularMode, 2, "??"),
                   DiskDir("sub", 3) >>)
    @@ (SubDir :> << DiskFile("deep.txt", ExecutableMode, 1, "ab") >>)

(***************************************************************************)
(* The state of a run.                                                     *)
(***************************************************************************)

VARIABLES
    \* the runtime configuration (package-level variables set by parseCmdLine)
    sortby, directories_first, listdirectories, listfiles, listInArchives,
    listhidden, only_executables, listFoundText, pathIsArchive,
    recurse_directories, mindate, maxdate, minmaxdatetype, minsize, maxsize,
    matcher, start_directory, haveGlobber, case_sensitive, exclude_exts,
    include_exts, text_search_type, text_regex, pw7zip,
    \* the command line: os.Args[1:] and how many of them parseCmdLine has
    \* taken; in the traversal specifications it is given by its result
    args, parsed,
    \* package-level variables written during the traversal
    PdftotextPath, TotalFiles, TotalBytes, skipArchiveEntryMask,
    \* the environment
    disk,                \* directory path -> its entries
    pdftotextInstalled,  \* whether resolveCommand finds pdftotext
    tempDirWritable,     \* whether os.CreateTemp succeeds
    unreadable,          \* <<archive path, entry name>> whose Open or read fails
    tempFiles,           \* the temporary files that exist on disk
    \* the run
    stack,               \* the calls of list_directory in progress, innermost last
    output,              \* what has been printed: one record per reported scope
    trace                \* what the run did, for the properties: a sequence of events

\* The configuration that main leaves as parseCmdLine set it.
parsedConfig == <<sortby, directories_first, listdirectories, listfiles, listInArchives,
                  listhidden, only_executables, listFoundText, pathIsArchive,
                  recurse_directories, mindate, maxdate, minmaxdatetype, minsize, maxsize,
                  matcher, haveGlobber, case_sensitive, exclude_exts,
                  include_exts, text_search_type, text_regex, pw7zip>>

config == <<parsedConfig, start_directory, args, parsed>>

environment == <<disk, pdftotextInstalled, tempDirWritable, unreadable>>

vars == <<config, PdftotextPath, TotalFiles, TotalBytes, skipArchiveEntryMask,
          environment, tempFiles, stack, output, trace>>

SORT_NAME == "n"

SORT_DATE == "d"

SORT_CREATED == "c"

SORT_ACCESSED == "a"

SORT_SIZE == "s"

SORT_TYPE == "e"

SORT_EXT == "x"

SORT_NATURAL == "o"

SEARCH_NONE == 0

SEARCH_CASE == 1

SEARCH_NOCASE == 2

SEARCH_REGEX == 3

PROGRAM_NOT_FOUND == "program not found"

ARCHIVE_NA == "na"

ARCHIVE_ZIP == "zip"

ARCHIVE_TGZ == "tgz"

ARCHIVE_7Z == "7z"

\* math.MaxInt64, as far as the sizes of the model go
MaxInt64 == 1000000

\* The zero time.Time; every time of the model is a number, later is larger.
ZeroTime == 0

NoError == "nil"

\* A sevenzip.ReadError whose Encrypted is set: errors.As finds it.
ReadErrorEncrypted == "sevenzip: ReadError{Encrypted: true}"

(***************************************************************************)
(* fileitem.                                                               *)
(***************************************************************************)

fileitem(path, name, size, modified, created, accessed, isDir, mode, linkDest, inArchive) ==
    [Path |-> path, Name |-> name, Size |-> size, Modified |-> modified,
     Created |-> created, Accessed |-> accessed, IsDir |-> isDir, Mode |-> mode,
     LinkDest |-> linkDest, InArchive |-> inArchive, ft |-> NONE, FoundText |-> ""]

\* Upper-case extension: the part after the last dot, "" when the last dot is
\* among the first two bytes or missing (lastdot <= 1, counted from 0).
Extension(f) ==
    LET lastdot == LastIndex1(f.Name, ".") - 1
    IN  ternaryString(lastdot <= 1, "", ToUpper(SubSeq(f.Name, lastdot + 2, Len(f.Name))))

IsArchive(f) == Contains(Extensions(ARCHIVE), "," \o ToLower(Extension(f) \o ","))

\* mode & 0111 != 0
AnyExecutableBit(mode) ==
    \/ (mode \div 64) % 2 = 1
    \/ (mode \div 8) % 2 = 1
    \/ mode % 2 = 1

\* The first of AUDIO..CODE whose table holds the extension, NONE when none does.
RECURSIVE ExtensionType(_, _)
ExtensionType(f, i) ==
    IF i > Len(ExtensionTypes) THEN NONE
    ELSE IF Contains(Extensions(ExtensionTypes[i]), "," \o ToLower(Extension(f) \o ","))
         THEN ExtensionTypes[i]
         ELSE ExtensionType(f, i + 1)

\* FileType() that answers DEFAULT once a type is cached.
FileTypeStale(f) ==
    IF f.ft # NONE THEN DEFAULT
    ELSE LET byKind == IF f.IsDir THEN DIRECTORY
                       ELSE IF AnyExecutableBit(f.Mode) THEN EXECUTABLE
                       ELSE ExtensionType(f, 1)
             hidden == IF byKind = NONE /\ CharAt(f.Name, 1) = "." THEN HIDDEN ELSE byKind
         IN  IF hidden = NONE THEN DEFAULT ELSE hidden

\* FileType() on an item whose cached type is f.ft: the value returned, which
\* is also the value left in the cache.
FileType(f) ==
    IF f.ft # NONE THEN f.ft
    ELSE LET byKind == IF f.IsDir THEN DIRECTORY
                       ELSE IF AnyExecutableBit(f.Mode) THEN EXECUTABLE
                       ELSE ExtensionType(f, 1)
             hidden == IF byKind = NONE /\ CharAt(f.Name, 1) = "." THEN HIDDEN ELSE byKind
         IN  IF hidden = NONE THEN DEFAULT ELSE hidden

\* The item after a call of FileType() on it: the type is in its cache.
AfterFileType(f) == [f EXCEPT !.ft = FileType(f)]

\* createdAndAccessed: the creation time and the last access time the
\* file system keeps for the file.
createdAndAccessed(fi) == <<fi.Created, fi.Accessed>>

makefileitem(de, path) ==
    LET ca == createdAndAccessed(de)
    IN  fileitem(path, de.Name, de.Size, de.Modified, ca[1], ca[2], de.IsDir, de.Mode, "", FALSE)

FileIsArchiveType(filename) ==
    LET extension == ToLower(SubSeq(filename, LastIndex1(filename, ".") + 1, Len(filename)))
    IN  IF extension = "zip" THEN ARCHIVE_ZIP
        ELSE IF extension = "tgz" \/ extension = "gz" THEN ARCHIVE_TGZ
        ELSE IF extension = "7z" THEN ARCHIVE_7Z
        ELSE ARCHIVE_NA

(***************************************************************************)
(* The collaborators: the glob matcher and the regular expression.         *)
(***************************************************************************)

\* glob.Glob.Match for a pattern of literals, ? and *.
RECURSIVE GlobMatch(_, _)
GlobMatch(pattern, s) ==
    IF Len(pattern) = 0 THEN Len(s) = 0
    ELSE LET p == CharAt(pattern, 1)
             rest == SubSeq(pattern, 2, Len(pattern))
         IN  IF p = "*"
             THEN \E k \in 0..Len(s) : GlobMatch(rest, SubSeq(s, k + 1, Len(s)))
             ELSE /\ Len(s) > 0
                  /\ (p = "?" \/ p = CharAt(s, 1))
                  /\ GlobMatch(rest, SubSeq(s, 2, Len(s)))

\* A compiled pattern: a literal, matched as it is or ("(?i)") without case.
Regexp(pattern, nocase) == [pattern |-> pattern, nocase |-> nocase]

RegexFold(regex, s) == IF regex.nocase THEN ToLower(s) ELSE s

\* regex.Match(buffer)
RegexMatch(regex, buffer) ==
    Contains(RegexFold(regex, buffer), RegexFold(regex, regex.pattern))

\* regex.FindAllStringIndex(line, -1): the non-overlapping matches from the
\* left, each <<start, end>> counted from 0, end exclusive; from is 1-based.
RECURSIVE FindAllStringIndex(_, _, _)
FindAllStringIndex(regex, line, from) ==
    LET n == Len(regex.pattern)
    IN  IF from + n - 1 > Len(line) THEN <<>>
        ELSE IF RegexFold(regex, SubSeq(line, from, from + n - 1)) = RegexFold(regex, regex.pattern)
             THEN <<<<from - 1, from - 1 + n>>>>
                  \o FindAllStringIndex(regex, line, from + (IF n = 0 THEN 1 ELSE n))
             ELSE FindAllStringIndex(regex, line, from + 1)

\* bufio.Scanner with ScanLines: the lines of the buffer without their line
\* ends; a last line without a line end counts, an empty rest does not.
RECURSIVE ScanLines(_)
ScanLines(buffer) ==
    IF Len(buffer) = 0 THEN <<>>
    ELSE LET nl == {i \in 1..Len(buffer) : CharAt(buffer, i) = "\n"}
         IN  IF nl = {} THEN <<buffer>>
             ELSE LET i == CHOOSE k \in nl : \A j \in nl : k <= j
                  IN  <<SubSeq(buffer, 1, i - 1)>> \o ScanLines(SubSeq(buffer, i + 1, Len(buffer)))

\* The excerpts of one line's matches, each with its line end.
RECURSIVE LineExcerpts(_, _)
LineExcerpts(line, matches) ==
    IF matches = <<>> THEN ""
    ELSE LET start == matches[1][1]
             end == matches[1][2]
             lineStart == IF start - 5 < 0 THEN 0 ELSE start - 5
             lineEnd == IF end + 60 > Len(line) THEN Len(line) ELSE end + 60
         IN  SubSeq(line, lineStart + 1, lineEnd) \o "\n" \o LineExcerpts(line, Tail(matches))

RECURSIVE MatchLines(_, _, _, _, _)
MatchLines(regex, lines, findAll, found, result) ==
    IF lines = <<>> THEN [found |-> found, text |-> result]
    ELSE LET matches == FindAllStringIndex(regex, lines[1], 1)
         IN  IF Len(matches) > 0
             THEN IF ~findAll THEN [found |-> TRUE, text |-> ""]
                  ELSE MatchLines(regex, Tail(lines), findAll, TRUE,
                                  result \o LineExcerpts(lines[1], matches))
             ELSE MatchLines(regex, Tail(lines), findAll, found, result)

\* matchTextBuffer scans a buffer line by line.
matchTextBuffer(regex, buffer, findAll) ==
    MatchLines(regex, ScanLines(buffer), findAll, FALSE, "")

(***************************************************************************)
(* The content search.  A search returns, with its answer, what it did to  *)
(* the world: pdf is PdftotextPath after the call, made the temporary      *)
(* files it created, left those still on disk when it returned, loaded the *)
(* archive entries whose bytes it held in memory, calls the routines it    *)
(* ran, in order.                                                          *)
(***************************************************************************)

\* Scaled from 20000, 400 and 1000000 bytes.
ChunkSize == 4

OverlapSize == 3

MaxEntryBytes == 6

PdftotextUninitialized == "*"

PdftotextResolved == "/usr/bin/pdftotext"

OfficeExtensions == {"DOCX", "PPTX", "XLSX", "VSDX"}

Min(a, b) == IF a < b THEN a ELSE b

SearchResult(found, text, pdf, made, left, loaded, calls) ==
    [isFound |-> found, foundText |-> text, pdf |-> pdf, made |-> made, left |-> left,
     loaded |-> loaded, calls |-> calls]

\* resolveCommand("pdftotext"): the path found, "" when there is none.
resolveCommand(cmd) == IF pdftotextInstalled THEN PdftotextResolved ELSE ""

\* PDFText that does not keep what resolveCommand found.
PDFTextUncached(filepath, ignoreExtension, raw, pdfPath) ==
    LET extension == ToUpper(SubSeq(filepath, LastIndex1(filepath, ".") + 1, Len(filepath)))
        resolved == IF pdfPath = PdftotextUninitialized
                    THEN resolveCommand("pdftotext") ELSE pdfPath
        resolving == IF pdfPath = PdftotextUninitialized
                     THEN <<"resolveCommand">> ELSE <<>>
        run == PdftotextOutput(raw)
    IN  IF ~ignoreExtension /\ extension # "PDF"
        THEN [text |-> "", err |-> "not a pdf file", pdf |-> pdfPath, calls |-> <<>>]
        ELSE IF pdfPath = ""
        THEN [text |-> "", err |-> PROGRAM_NOT_FOUND, pdf |-> pdfPath, calls |-> <<>>]
        ELSE IF Len(resolved) = 0
        THEN [text |-> "", err |-> PROGRAM_NOT_FOUND, pdf |-> pdfPath, calls |-> resolving]
        ELSE IF ~run.ok
        THEN [text |-> "", err |-> "could not run pdftotext", pdf |-> pdfPath,
              calls |-> resolving \o <<"pdftotext">>]
        ELSE [text |-> run.text, err |-> NoError, pdf |-> pdfPath,
              calls |-> resolving \o <<"pdftotext">>]

\* PDFText on a file of bytes raw, with PdftotextPath = pdfPath at the call.
PDFText(filepath, ignoreExtension, raw, pdfPath) ==
    LET extension == ToUpper(SubSeq(filepath, LastIndex1(filepath, ".") + 1, Len(filepath)))
    IN  IF ~ignoreExtension /\ extension # "PDF"
        THEN [text |-> "", err |-> "not a pdf file", pdf |-> pdfPath, calls |-> <<>>]
        ELSE IF pdfPath = ""
        THEN [text |-> "", err |-> PROGRAM_NOT_FOUND, pdf |-> pdfPath, calls |-> <<>>]
        ELSE LET resolved == IF pdfPath = PdftotextUninitialized
                             THEN resolveCommand("pdftotext") ELSE pdfPath
                 resolving == IF pdfPath = PdftotextUninitialized
                              THEN <<"resolveCommand">> ELSE <<>>
                 run == PdftotextOutput(raw)
             IN  IF Len(resolved) = 0
                 THEN [text |-> "", err |-> PROGRAM_NOT_FOUND, pdf |-> resolved,
                       calls |-> resolving]
                 ELSE IF ~run.ok
                 THEN [text |-> "", err |-> "could not run pdftotext", pdf |-> resolved,
                       calls |-> resolving \o <<"pdftotext">>]
                 ELSE [text |-> run.text, err |-> NoError, pdf |-> resolved,
                       calls |-> resolving \o <<"pdftotext">>]

\* The pseudo-seek of the three extract functions on the bytes of one entry:
\* read and drop up to offset, then one Read into a buffer of length bytes.
RECURSIVE PseudoSeek(_, _, _)
PseudoSeek(curPos, offset, length) ==
    IF curPos < offset /\ length > 0
    THEN (IF length + curPos > offset THEN offset - curPos ELSE length)
         + PseudoSeek(curPos + length, offset, length)
    ELSE 0

\* As ReadAfterSeek, with a buffer of no bytes (make([]byte, 0, length)): the
\* Read has no room and delivers nothing.
ReadAfterSeekNoRoom(raw, offset, length) == ""

ReadAfterSeek(raw, offset, length) ==
    LET skipped == Min(PseudoSeek(0, offset, length), Len(raw))
        got == SubSeq(raw, skipped + 1, Min(Len(raw), skipped + length))
    IN  got \o Repeat(ZeroByte, length - Len(got))

EntryNamed(entries, filename) ==
    LET hits == {i \in 1..Len(entries) : entries[i].Name = filename}
    IN  IF hits = {} THEN 0 ELSE CHOOSE i \in hits : \A j \in hits : i <= j

\* extractZipFileBytes on an archive of the tree.
extractZipFileBytes(zippath, filename, offset, length) ==
    LET zip == ArchiveFile(zippath)
        i == EntryNamed(zip.entries, filename)
    IN  IF ~zip.ok THEN [data |-> "", err |-> "zip: not a valid zip file"]
        ELSE IF i = 0 THEN [data |-> Repeat(ZeroByte, length), err |-> NoError]
        ELSE IF <<zippath, filename>> \in unreadable THEN [data |-> "", err |-> "open"]
        ELSE [data |-> ReadAfterSeek(zip.entries[i].raw, offset, length), err |-> NoError]

\* sevenzip.OpenReaderWithPassword on a file of the tree: the error it gives.
OpenReaderWithPassword(path, password) ==
    IF ~ArchiveFile(path).ok THEN "sevenzip: not a valid archive"
    ELSE IF ArchivePassword(path) # "" /\ password # ArchivePassword(path)
    THEN ReadErrorEncrypted
    ELSE NoError

extract7ZFileBytes(zippath, filename, offset, length) ==
    LET zip == ArchiveFile(zippath)
        i == EntryNamed(zip.entries, filename)
        err == OpenReaderWithPassword(zippath, pw7zip)
    IN  IF err # NoError THEN [data |-> "", err |-> err]
        ELSE IF i = 0 THEN [data |-> Repeat(ZeroByte, length), err |-> NoError]
        ELSE IF <<zippath, filename>> \in unreadable THEN [data |-> "", err |-> "open"]
        ELSE [data |-> ReadAfterSeek(zip.entries[i].raw, offset, length), err |-> NoError]

\* extractTgzFileBytes: tarReader.Next() ends with io.EOF when no header has the name.
extractTgzFileBytes(zippath, filename, offset, length) ==
    LET tgz == ArchiveFile(zippath)
        i == EntryNamed(tgz.entries, filename)
    IN  IF ~tgz.ok THEN [data |-> "", err |-> "gzip: invalid header"]
        ELSE IF i = 0 THEN [data |-> Repeat(ZeroByte, length), err |-> "EOF"]
        ELSE IF <<zippath, filename>> \in unreadable
        THEN [data |-> Repeat(ZeroByte, length), err |-> NoError]
        ELSE [data |-> ReadAfterSeek(tgz.entries[i].raw, offset, length), err |-> NoError]

\* Load one file in the archive into bytes, with a maximum size.
archiveFileBytes(target) ==
    IF target.Size > MaxEntryBytes THEN [data |-> "", err |-> "archive entry too large"]
    ELSE LET type == FileIsArchiveType(target.Path)
         IN  IF type = ARCHIVE_ZIP THEN extractZipFileBytes(target.Path, target.Name, 0, target.Size)
             ELSE IF type = ARCHIVE_7Z THEN extract7ZFileBytes(target.Path, target.Name, 0, target.Size)
             ELSE IF type = ARCHIVE_TGZ THEN extractTgzFileBytes(target.Path, target.Name, 0, target.Size)
             ELSE [data |-> "", err |-> "unsupported archive type"]

RECURSIVE ReplaceAll(_, _, _)
ReplaceAll(s, old, new) ==
    IF Len(s) = 0 THEN ""
    ELSE (IF CharAt(s, 1) = old THEN new ELSE CharAt(s, 1))
         \o ReplaceAll(SubSeq(s, 2, Len(s)), old, new)

sanitizeTempPattern(name) ==
    LET pattern == ReplaceAll(ReplaceAll(name, "/", "_"), "\\", "_")
    IN  IF pattern = "" \/ pattern = "." THEN "archive-entry-*" ELSE pattern

\* The name os.CreateTemp("", pattern) gives the file: a random number is put
\* at the end of the pattern, or in the place of its last *.
TempName(pattern) ==
    LET star == LastIndex1(pattern, "*")
    IN  IF star = 0 THEN "/tmp/" \o pattern \o "1"
        ELSE "/tmp/" \o SubSeq(pattern, 1, star - 1) \o "1" \o SubSeq(pattern, star + 1, Len(pattern))

\* The deferred calls of a function run when it returns: what is left of the
\* files onDisk after the deferred os.Remove of each file in deferred.
RunDeferredLeak(onDisk, deferred) == onDisk

RunDeferred(onDisk, deferred) == onDisk \ deferred

\* extractZipFileBytes of a part of an Office document, whole: no bytes and
\* an error when the part cannot be opened.
PartBytes(part) ==
    IF part.ok THEN [data |-> part.raw, err |-> NoError] ELSE [data |-> "", err |-> "open"]

\* The loop of archiveFileTextSearchFromData over the parts of an unzipped
\* Office document.
RECURSIVE OfficePartsFromData(_, _, _)
OfficePartsFromData(parts, found, allFoundText) ==
    IF parts = <<>> THEN [found |-> found, text |-> allFoundText]
    ELSE LET m == matchTextBuffer(text_regex, PartBytes(parts[1]).data, listFoundText)
         IN  IF PartBytes(parts[1]).err # NoError
             THEN OfficePartsFromData(Tail(parts), found, allFoundText)
             ELSE IF m.found
             THEN IF ~listFoundText THEN [found |-> TRUE, text |-> ""]
                  ELSE OfficePartsFromData(Tail(parts), TRUE, allFoundText \o m.text)
             ELSE OfficePartsFromData(Tail(parts), found, allFoundText)

\* As archiveFileTextSearchFromData, but the bytes are kept after they were
\* written to the temporary file and are scanned when the document gave no text.
archiveFileTextSearchFromDataKept(target, data, pdfPath) ==
    LET t_ext == Extension(target)
        plain == matchTextBuffer(text_regex, data, listFoundText)
    IN  IF ~(t_ext \in OfficeExtensions \/ t_ext = "PDF")
        THEN SearchResult(plain.found, plain.text, pdfPath, {}, {}, {}, <<>>)
        ELSE IF ~tempDirWritable
        THEN SearchResult(plain.found, plain.text, pdfPath, {}, {}, {}, <<"CreateTemp">>)
        ELSE LET pfilename == TempName(sanitizeTempPattern(target.Name))
                 left == RunDeferred({pfilename}, {pfilename})
                 last == matchTextBuffer(text_regex, data, listFoundText)
             IN  IF t_ext = "PDF"
                 THEN LET p == PDFText(pfilename, TRUE, data, pdfPath)
                          m == matchTextBuffer(text_regex, p.text, listFoundText)
                      IN  IF p.err = NoError
                          THEN SearchResult(m.found, m.text, p.pdf, {pfilename}, left, {},
                                            <<"CreateTemp">> \o p.calls)
                          ELSE SearchResult(last.found, last.text, p.pdf, {pfilename}, left, {},
                                            <<"CreateTemp">> \o p.calls)
                 ELSE LET embeddedFiles == UnzipBytes(data)
                          o == OfficePartsFromData(embeddedFiles.parts, FALSE, "")
                      IN  IF embeddedFiles.ok /\ o.found
                          THEN SearchResult(TRUE, o.text, pdfPath, {pfilename}, left, {},
                                            <<"CreateTemp", "unzip">>)
                          ELSE SearchResult(last.found, last.text, pdfPath, {pfilename}, left, {},
                                            <<"CreateTemp", "unzip">>)

\* Search archive entry contents that are already loaded in memory.
archiveFileTextSearchFromData(target, data, pdfPath) ==
    LET t_ext == Extension(target)
        plain == matchTextBuffer(text_regex, data, listFoundText)
    IN  IF ~(t_ext \in OfficeExtensions \/ t_ext = "PDF")
        THEN SearchResult(plain.found, plain.text, pdfPath, {}, {}, {}, <<>>)
        ELSE IF ~tempDirWritable
        THEN SearchResult(plain.found, plain.text, pdfPath, {}, {}, {}, <<"CreateTemp">>)
        ELSE LET pfilename == TempName(sanitizeTempPattern(target.Name))
                 left == RunDeferred({pfilename}, {pfilename})
                 \* data = nil
                 last == matchTextBuffer(text_regex, "", listFoundText)
             IN  IF t_ext = "PDF"
                 THEN LET p == PDFText(pfilename, TRUE, data, pdfPath)
                          m == matchTextBuffer(text_regex, p.text, listFoundText)
                      IN  IF p.err = NoError
                          THEN SearchResult(m.found, m.text, p.pdf, {pfilename}, left, {},
                                            <<"CreateTemp">> \o p.calls)
                          ELSE SearchResult(last.found, last.text, p.pdf, {pfilename}, left, {},
                                            <<"CreateTemp">> \o p.calls)
                 ELSE LET embeddedFiles == UnzipBytes(data)
                          o == OfficePartsFromData(embeddedFiles.parts, FALSE, "")
                      IN  IF embeddedFiles.ok /\ o.found
                          THEN SearchResult(TRUE, o.text, pdfPath, {pfilename}, left, {},
                                            <<"CreateTemp", "unzip">>)
                          ELSE SearchResult(last.found, last.text, pdfPath, {pfilename}, left, {},
                                            <<"CreateTemp", "unzip">>)

\* The result r of a search on the bytes of the entry name, which the
\* routine call had loaded into memory before.
Loaded(r, name, call) == [r EXCEPT !.loaded = {name}, !.calls = <<call>> \o r.calls]

\* Load and search one file in the archive.
archiveFileTextSearch(target, pdfPath) ==
    LET b == archiveFileBytes(target)
    IN  IF b.err # NoError
        THEN SearchResult(FALSE, "", pdfPath, {}, {}, {}, <<>>)
        ELSE Loaded(archiveFileTextSearchFromData(target, b.data, pdfPath),
                    target.Name, "extract")

\* The entry of a directory of the disk, by name; none when there is no such file.
DiskEntry(path, name) ==
    IF path \notin DOMAIN disk THEN [ok |-> FALSE]
    ELSE LET i == EntryNamed(disk[path], name)
         IN  IF i = 0 THEN [ok |-> FALSE] ELSE [ok |-> TRUE, file |-> disk[path][i]]

\* One pass of the read loop of diskFileTextSearch and those after it, with
\* listFoundText = findAll.
RECURSIVE ReadLoop(_, _, _, _, _, _, _, _, _)
ReadLoop(raw, pos, searchBuffer, text_found, allFoundText, chunkSize, overlapSize, size, findAll) ==
    IF ~(~text_found \/ findAll)
    THEN [found |-> text_found, text |-> allFoundText]
    ELSE LET n == Min(chunkSize, Len(raw) - pos)
             buffer == SubSeq(searchBuffer, 1, overlapSize)
                       \o SubSeq(raw, pos + 1, pos + n)
                       \o SubSeq(searchBuffer, overlapSize + n + 1, Len(searchBuffer))
             m == matchTextBuffer(text_regex, buffer, TRUE)
             nowFound == IF ~findAll THEN RegexMatch(text_regex, buffer)
                         ELSE (text_found \/ m.found)
             nowText == IF findAll /\ m.found THEN allFoundText \o m.text
                        ELSE allFoundText
         IN  IF n < chunkSize \/ n = size
             THEN [found |-> nowFound, text |-> nowText]
             ELSE ReadLoop(raw, pos + n, buffer, nowFound, nowText, chunkSize, overlapSize,
                           size, findAll)

\* diskFileTextSearch with listFoundText = findAll.
DiskSearch(target, findAll) ==
    LET file == DiskEntry(target.Path, target.Name)
        chunkSize == IF ChunkSize > target.Size THEN target.Size ELSE ChunkSize
        overlapSize == IF ChunkSize > target.Size THEN 0 ELSE OverlapSize
    IN  IF ~file.ok \/ file.file.IsDir THEN [found |-> FALSE, text |-> ""]
        ELSE ReadLoop(file.file.raw, 0, Repeat(ZeroByte, chunkSize + overlapSize),
                      FALSE, "", chunkSize, overlapSize, target.Size, findAll)

\* Searches the file in chunks.
diskFileTextSearch(target) == DiskSearch(target, listFoundText)

(***************************************************************************)
(* The condition evaluator.                                                *)
(***************************************************************************)

archiveNameMatchesMask(name) ==
    IF ~haveGlobber THEN FALSE
    ELSE GlobMatch(matcher, ternaryString(case_sensitive, name, ToUpper(name)))

\* The date of the item that mindate and maxdate bound.
BoundedDate(target) ==
    IF minmaxdatetype = "m" THEN target.Modified
    ELSE IF minmaxdatetype = "c" THEN target.Created
    ELSE target.Accessed

\* The checks of fileMeetsConditions before the text search: TRUE when none
\* of them rejects the item.
PassesNonTextConditions(target) ==
    /\ ~(~listdirectories /\ target.IsDir)
    /\ ~(~listfiles /\ ~target.IsDir)
    /\ ~(Len(exclude_exts) > 0 /\ \E i \in 1..Len(exclude_exts) : exclude_exts[i] = Extension(target))
    /\ ~(Len(include_exts) > 0 /\ ~\E i \in 1..Len(include_exts) : include_exts[i] = Extension(target))
    /\ ~(~listhidden /\ CharAt(target.Name, 1) = ".")
    /\ ~(mindate # ZeroTime /\ BoundedDate(target) < mindate)
    /\ ~(maxdate # ZeroTime /\ BoundedDate(target) > maxdate)
    /\ ~(target.Size < minsize \/ target.Size > maxsize)
    /\ ~(/\ haveGlobber
         /\ ~(target.InArchive /\ skipArchiveEntryMask)
         /\ ~GlobMatch(matcher, ternaryString(case_sensitive, target.Name, ToUpper(target.Name))))

\* The loop of fileMeetsConditions over the parts of an Office document on disk.
\* err is the error of the last extractZipFileBytes of the loop; findAll is
\* listFoundText.
RECURSIVE OfficePartsOnDisk(_, _, _, _, _)
OfficePartsOnDisk(parts, found, foundText, err, findAll) ==
    IF parts = <<>> THEN [found |-> found, text |-> foundText, err |-> err]
    ELSE IF ~findAll
         THEN IF RegexMatch(text_regex, PartBytes(parts[1]).data)
              THEN [found |-> TRUE, text |-> foundText, err |-> PartBytes(parts[1]).err]
              ELSE OfficePartsOnDisk(Tail(parts), FALSE, foundText, PartBytes(parts[1]).err,
                                     findAll)
         ELSE LET m == matchTextBuffer(text_regex, PartBytes(parts[1]).data, findAll)
              IN  IF m.found
                  THEN OfficePartsOnDisk(Tail(parts), TRUE, foundText \o m.text,
                                         PartBytes(parts[1]).err, findAll)
                  ELSE OfficePartsOnDisk(Tail(parts), found, foundText,
                                         PartBytes(parts[1]).err, findAll)

\* The search of fileMeetsConditions in the parts of an Office document on
\* disk that opened as a container, with listFoundText = findAll: the loop
\* over the parts, then the brute-force search of the file when the last
\* extractZipFileBytes gave an error.
OfficeSearchOnDisk(target, parts, findAll) ==
    LET o == OfficePartsOnDisk(parts, FALSE, "", NoError, findAll)
        d == DiskSearch(target, findAll)
    IN  IF o.err # NoError
        THEN [found |-> d.found, text |-> d.text, calls |-> <<"unzip", "diskFileTextSearch">>]
        ELSE [found |-> o.found, text |-> o.text, calls |-> <<"unzip">>]

\* The check for the executable flag: os.Stat of the path of the item and
\* the executable bits of what is there.
PassesExecutableCheck(target) ==
    LET info == DiskEntry(target.Path, target.Name)
    IN  info.ok /\ AnyExecutableBit(info.file.Mode)

\* The end of fileMeetsConditions, after the text search let the item pass.
AfterTextSearch(target, r) ==
    IF only_executables /\ ~PassesExecutableCheck(target)
    THEN [r EXCEPT !.isFound = FALSE]
    ELSE [r EXCEPT !.isFound = TRUE]

\* fileMeetsConditions after the search o in the parts of an Office document
\* on disk.
AfterOfficeParts(target, pdfPath, o) ==
    IF ~o.found
    THEN SearchResult(FALSE, o.text, pdfPath, {}, {}, {}, o.calls)
    ELSE AfterTextSearch(target, SearchResult(TRUE, o.text, pdfPath, {}, {}, {}, o.calls))

\* The text search of fileMeetsConditions on a file on disk that is neither a
\* directory nor a kept archive container.
DiskTextSearch(target, pdfPath) ==
    LET t_ext == Extension(target)
        file == DiskEntry(target.Path, target.Name)
        raw == IF file.ok THEN file.file.raw ELSE ""
    IN  IF t_ext \in OfficeExtensions
        THEN LET embeddedFiles == UnzipBytes(raw)
             IN  IF ~file.ok \/ ~embeddedFiles.ok
                 THEN SearchResult(FALSE, "", pdfPath, {}, {}, {}, <<"unzip">>)
                 ELSE AfterOfficeParts(target, pdfPath,
                          OfficeSearchOnDisk(target, embeddedFiles.parts, listFoundText))
        ELSE LET p == PDFText(Join(target.Path, target.Name), FALSE, raw, pdfPath)
             IN  IF p.err = NoError
                 THEN IF ~listFoundText
                      THEN IF ~RegexMatch(text_regex, p.text)
                           THEN SearchResult(FALSE, "", p.pdf, {}, {}, {}, p.calls)
                           ELSE AfterTextSearch(target,
                                    SearchResult(TRUE, "", p.pdf, {}, {}, {}, p.calls))
                      ELSE LET m == matchTextBuffer(text_regex, p.text, listFoundText)
                           IN  SearchResult(m.found, m.text, p.pdf, {}, {}, {}, p.calls)
                 ELSE LET d == diskFileTextSearch(target)
                      IN  IF ~d.found
                          THEN SearchResult(FALSE, d.text, p.pdf, {}, {}, {},
                                            p.calls \o <<"diskFileTextSearch">>)
                          ELSE AfterTextSearch(target,
                                   SearchResult(TRUE, d.text, p.pdf, {}, {}, {},
                                                p.calls \o <<"diskFileTextSearch">>))

\* Does this file meet current conditions for inclusion?  pdfPath is
\* PdftotextPath at the call.
fileMeetsConditions(target, noTextSearch, pdfPath) ==
    IF ~PassesNonTextConditions(target)
    THEN SearchResult(FALSE, "", pdfPath, {}, {}, {}, <<>>)
    ELSE IF text_search_type # SEARCH_NONE /\ ~noTextSearch
    THEN IF target.IsDir
         THEN SearchResult(FALSE, "", pdfPath, {}, {}, {}, <<>>)
         ELSE IF /\ listInArchives
                 /\ ~target.InArchive
                 /\ IsArchive(target)
                 /\ archiveNameMatchesMask(target.Name)
         THEN SearchResult(TRUE, "", pdfPath, {}, {}, {}, <<>>)
         ELSE IF target.InArchive
         THEN archiveFileTextSearch(target, pdfPath)
         ELSE DiskTextSearch(target, pdfPath)
    ELSE AfterTextSearch(target, SearchResult(TRUE, "", pdfPath, {}, {}, {}, <<>>))

\* fileCheckMeetsConditions: the text found is handed on only with success.
OnlyFoundText(r) == IF r.isFound THEN r ELSE [r EXCEPT !.foundText = ""]

fileCheckMeetsConditions(target, pdfPath) ==
    OnlyFoundText(fileMeetsConditions(target, FALSE, pdfPath))

(***************************************************************************)
(* The sort of a scope's matches.                                          *)
(***************************************************************************)

sortorder(field, ascending) == [field |-> field, ascending |-> ascending]

\* The comparator list_directory hands to sort.Slice, for the items at i and
\* j: the names are taken before the two items are swapped for a descending
\* sort.
SortLess(atI, atJ, by, dirsFirst, caseSensitive) ==
    LET firstName == ternaryString(caseSensitive, atI.Name, ToUpper(atI.Name))
        secondName == ternaryString(caseSensitive, atJ.Name, ToUpper(atJ.Name))
        first == IF by.ascending THEN atI ELSE atJ
        second == IF by.ascending THEN atJ ELSE atI
    IN  IF dirsFirst /\ first.IsDir # second.IsDir THEN first.IsDir
        ELSE CASE by.field = SORT_NAME -> StrLess(firstName, secondName)
               [] by.field = SORT_DATE -> first.Modified < second.Modified
               [] by.field = SORT_ACCESSED -> first.Accessed < second.Accessed
               [] by.field = SORT_CREATED -> first.Created < second.Created
               [] by.field = SORT_SIZE -> first.Size < second.Size
               [] by.field = SORT_TYPE ->
                    IF FileType(first) # FileType(second)
                    THEN FileTypeSortOrder(FileType(first)) < FileTypeSortOrder(FileType(second))
                    ELSE IF Extension(first) # Extension(second)
                    THEN StrLess(Extension(first), Extension(second))
                    ELSE StrLess(firstName, secondName)
               [] by.field = SORT_EXT ->
                    IF Extension(first) = Extension(second)
                    THEN StrLess(firstName, secondName)
                    ELSE StrLess(Extension(first), Extension(second))
               [] OTHER -> StrLess(first.Name, second.Name)

less(atI, atJ) == SortLess(atI, atJ, sortby, directories_first, case_sensitive)

\* What sort.Slice may leave: every order of the items (those at the places
\* idx) in which no item is less than one before it.  The sort is not
\* stable, so items that compare equal may come out in any order.
RECURSIVE SortedOrders(_, _, _, _, _)
SortedOrders(items, idx, by, dirsFirst, caseSensitive) ==
    IF idx = {} THEN {<<>>}
    ELSE LET least == {m \in idx : \A o \in idx \ {m} :
                          ~SortLess(items[o], items[m], by, dirsFirst, caseSensitive)}
         IN  UNION {{<<items[m]>> \o rest :
                        rest \in SortedOrders(items, idx \ {m}, by, dirsFirst, caseSensitive)} :
                    m \in least}

SortSlice(items) ==
    SortedOrders(items, 1..Len(items), sortby, directories_first, case_sensitive)

\* As SortStrings, but in descending order.
RECURSIVE SortStringsDescending(_)
SortStringsDescending(names) ==
    IF names = {} THEN <<>>
    ELSE LET m == CHOOSE n \in names : \A o \in names \ {n} : StrLess(o, n)
         IN  <<m>> \o SortStringsDescending(names \ {m})

\* sort.Strings
RECURSIVE SortStrings(_)
SortStrings(names) ==
    IF names = {} THEN <<>>
    ELSE LET m == CHOOSE n \in names : \A o \in names \ {n} : StrLess(n, o)
         IN  <<m>> \o SortStrings(names \ {m})

SeqToSet(q) == {q[i] : i \in 1..Len(q)}

(***************************************************************************)
(* The traversal: list_directory and the enumerators it calls, one entry   *)
(* of a scope at a step.                                                   *)
(***************************************************************************)

ListingSet ==
    [Subdirs |-> <<>>, Archives |-> <<>>, MatchedFiles |-> <<>>,
     Filecount |-> 0, Directorycount |-> 0, Bytesfound |-> 0]

\* A call of list_directory: its arguments, where it is (pc), the entries
\* its enumerator has not come to yet (pending), its ListingSet, the error
\* of its enumerator, the archives and subdirectories it has yet to enter,
\* and the value of skipArchiveEntryMask it keeps while in an archive.
Frame(target, recursed, isArchive) ==
    [target |-> target, recursed |-> recursed, isArchive |-> isArchive, pc |-> "open",
     pending |-> <<>>, ls |-> ListingSet, err |-> NoError,
     archives |-> <<>>, subdirs |-> <<>>, previousSkip |-> FALSE]

Top == stack[Len(stack)]

Running == Len(stack) > 0

SetTop(f) == [stack EXCEPT ![Len(stack)] = f]

\* Whether the file at a path of the disk exists; os.Open and the archive
\* readers fail when it does not.
PathExists(path) ==
    \/ path \in DOMAIN disk
    \/ \E d \in DOMAIN disk : \E i \in 1..Len(disk[d]) : Join(d, disk[d][i].Name) = path

\* An item that met the conditions is taken into the ListingSet.
Matched(ls, item, foundText) ==
    [ls EXCEPT !.MatchedFiles = Append(@, [item EXCEPT !.FoundText = foundText]),
               !.Directorycount = IF item.IsDir THEN @ + 1 ELSE @,
               !.Filecount = IF item.IsDir THEN @ ELSE @ + 1,
               !.Bytesfound = IF item.IsDir THEN @ ELSE @ + item.Size]

\* os.Getwd(): the directory dir is run in.
WorkingDirectory == RootDir

\* main after parseCmdLine: the start directory, then the traversal from it.
Start ==
    /\ stack = <<>>
    /\ trace = <<>>
    /\ parsed = Len(args)
    /\ start_directory' = IF Len(start_directory) = 0 \/ start_directory = "."
                          THEN WorkingDirectory ELSE start_directory
    /\ stack' = <<Frame(start_directory', FALSE, pathIsArchive)>>
    /\ trace' = <<[ev |-> "call", target |-> start_directory', isArchive |-> pathIsArchive,
                   depth |-> 1]>>
    /\ UNCHANGED <<parsedConfig, args, parsed, PdftotextPath, TotalFiles, TotalBytes,
                   skipArchiveEntryMask, environment, tempFiles, output>>

\* As SevenZOpenIterator, but every error of the library is handed on as one
\* error of the iterator.
SevenZOpenIteratorWrapped(path, password) ==
    IF PathExists(path) /\ OpenReaderWithPassword(path, password) = NoError
    THEN NoError ELSE "open"

\* SevenZOpenIterator: the error of the library is handed on as it is.
SevenZOpenIterator(path, password) ==
    IF ~PathExists(path) THEN "open" ELSE OpenReaderWithPassword(path, password)

\* The error of the enumerator of an archive scope at its opening.
OpenArchiveError(target) ==
    IF FileIsArchiveType(target) = ARCHIVE_7Z
    THEN SevenZOpenIterator(target, pw7zip)
    ELSE IF PathExists(target) /\ ArchiveFile(target).ok THEN NoError ELSE "open"

\* The enumerator of the scope opens its directory or archive.  One that
\* cannot be opened gives an empty ListingSet, and an archive an error too.
OpenScope ==
    /\ Running
    /\ Top.pc = "open"
    /\ LET f == Top
           type == FileIsArchiveType(f.target)
           opens == IF f.isArchive
                    THEN OpenArchiveError(f.target) = NoError
                    ELSE f.target \in DOMAIN disk
           entries == IF ~opens THEN <<>>
                      ELSE IF f.isArchive
                      THEN (IF type = ARCHIVE_NA THEN <<>> ELSE ArchiveFile(f.target).entries)
                      ELSE disk[f.target]
           err == IF f.isArchive /\ type # ARCHIVE_NA /\ ~opens THEN OpenArchiveError(f.target)
                  ELSE IF f.isArchive /\ type = ARCHIVE_TGZ /\ entries = <<>> THEN "EOF"
                  ELSE NoError
       IN  /\ stack' = SetTop([f EXCEPT !.pending = entries, !.err = err,
                                        !.pc = IF entries = <<>> THEN "report" ELSE "filter"])
           /\ trace' = Append(trace, [ev |-> "open", target |-> f.target, ok |-> (err = NoError),
                                      err |-> err,
                                      depth |-> Len(stack)])
    /\ UNCHANGED <<config, PdftotextPath, TotalFiles, TotalBytes, skipArchiveEntryMask,
                   environment, tempFiles, output>>

\* The fileitem an enumerator builds for the entry e of the scope f.
ScopeItem(f, e) ==
    IF ~f.isArchive THEN makefileitem(e, f.target)
    ELSE fileitem(f.target, e.Name, e.Size, e.Modified, ZeroTime, ZeroTime,
                  IF FileIsArchiveType(f.target) = ARCHIVE_TGZ THEN FALSE ELSE e.IsDir,
                  e.Mode, "", TRUE)

\* SevenZReadAll: the whole entry, whatever its size.
SevenZReadAll(path, e) ==
    IF e.IsDir THEN [data |-> "", err |-> NoError]
    ELSE IF <<path, e.Name>> \in unreadable THEN [data |-> "", err |-> "read"]
    ELSE [data |-> e.raw, err |-> NoError]

\* One pass of the loop of linearFilesIn7ZArchive, for an entry that is no
\* directory: kind says how it ended.
Linear7ZEntry(f, e, pdfPath) ==
    LET item == ScopeItem(f, e)
        contents == SevenZReadAll(f.target, e)
    IN  IF ~fileMeetsConditions(item, TRUE, pdfPath).isFound
        THEN [kind |-> "continue", r |-> SearchResult(FALSE, "", pdfPath, {}, {}, {}, <<>>)]
        ELSE IF contents.err # NoError
        THEN [kind |-> "return", r |-> SearchResult(FALSE, "", pdfPath, {}, {}, {}, <<>>)]
        ELSE IF text_search_type # SEARCH_NONE
        THEN [kind |-> "continue",
              r |-> Loaded(archiveFileTextSearchFromData(item, contents.data, pdfPath),
                           e.Name, "SevenZReadAll")]
        ELSE [kind |-> "continue",
              r |-> SearchResult(TRUE, "", pdfPath, {}, {}, {e.Name}, <<"SevenZReadAll">>)]

\* One pass of the loop of the enumerator of the scope f, for its entry e:
\* filesInDirectory, filesInZipArchive, filesInTgzArchive or
\* linearFilesIn7ZArchive.  kind says how the pass ended, r what the
\* evaluation of the entry gave.
EnumeratorStep(f, e, pdfPath) ==
    IF f.isArchive /\ FileIsArchiveType(f.target) = ARCHIVE_7Z
    THEN IF e.IsDir
         THEN [kind |-> "skip", r |-> SearchResult(FALSE, "", pdfPath, {}, {}, {}, <<>>)]
         ELSE Linear7ZEntry(f, e, pdfPath)
    ELSE [kind |-> "continue", r |-> fileCheckMeetsConditions(ScopeItem(f, e), pdfPath)]

\* As Listed, but the archives and directories inside an archive are kept to
\* be entered too.
ListedNested(f, item, r) ==
    LET ls1 == IF r.isFound THEN Matched(f.ls, item, r.foundText) ELSE f.ls
        ls2 == IF IsArchive(item) /\ listInArchives
               THEN [ls1 EXCEPT !.Archives = Append(@, item.Name)] ELSE ls1
    IN  IF /\ item.IsDir /\ listdirectories
           /\ (listhidden \/ CharAt(item.Name, 1) # ".")
        THEN [ls2 EXCEPT !.Subdirs = Append(@, item.Name)] ELSE ls2

\* The ListingSet after the pass: the item among the matches when it met the
\* conditions and, in a directory, among the archives and subdirectories to
\* enter.
Listed(f, item, r) ==
    LET ls1 == IF r.isFound THEN Matched(f.ls, item, r.foundText) ELSE f.ls
        ls2 == IF ~f.isArchive /\ IsArchive(item) /\ listInArchives
               THEN [ls1 EXCEPT !.Archives = Append(@, item.Name)] ELSE ls1
    IN  IF /\ ~f.isArchive
           /\ item.IsDir /\ listdirectories
           /\ (listhidden \/ CharAt(item.Name, 1) # ".")
        THEN [ls2 EXCEPT !.Subdirs = Append(@, item.Name)] ELSE ls2

\* As TakeStep, but what PDFText resolved is kept for one entry only.
TakeStepForgetful(f, e, step) ==
    LET rest == Tail(f.pending)
        ended == step.kind = "return" \/ rest = <<>>
        err == IF step.kind = "return" THEN "read"
               ELSE IF rest = <<>> /\ f.isArchive /\ FileIsArchiveType(f.target) = ARCHIVE_TGZ
               THEN "EOF"
               ELSE f.err
    IN  /\ stack' = SetTop([f EXCEPT !.pending = IF ended THEN <<>> ELSE rest,
                                     !.ls = Listed(f, ScopeItem(f, e), step.r), !.err = err,
                                     !.pc = IF ended THEN "report" ELSE "filter"])
        /\ PdftotextPath' = IF PdftotextPath = PdftotextUninitialized THEN step.r.pdf
                            ELSE PdftotextUninitialized
        /\ tempFiles' = tempFiles \cup step.r.left
        /\ trace' = Append(trace,
               [ev |-> IF step.kind = "skip" THEN "skip"
                       ELSE IF step.kind = "return" THEN "abort" ELSE "eval",
                target |-> f.target, name |-> e.Name, inArchive |-> f.isArchive,
                size |-> e.Size, found |-> step.r.isFound, foundText |-> step.r.foundText,
                made |-> step.r.made, loaded |-> step.r.loaded, calls |-> step.r.calls,
                depth |-> Len(stack)])

\* The state after a pass of the enumerator's loop that ended as step says.
TakeStep(f, e, step) ==
    LET rest == Tail(f.pending)
        ended == step.kind = "return" \/ rest = <<>>
        err == IF step.kind = "return" THEN "read"
               ELSE IF rest = <<>> /\ f.isArchive /\ FileIsArchiveType(f.target) = ARCHIVE_TGZ
               THEN "EOF"
               ELSE f.err
    IN  /\ stack' = SetTop([f EXCEPT !.pending = IF ended THEN <<>> ELSE rest,
                                     !.ls = Listed(f, ScopeItem(f, e), step.r), !.err = err,
                                     !.pc = IF ended THEN "report" ELSE "filter"])
        /\ PdftotextPath' = step.r.pdf
        /\ tempFiles' = tempFiles \cup step.r.left
        /\ trace' = Append(trace,
               [ev |-> IF step.kind = "skip" THEN "skip"
                       ELSE IF step.kind = "return" THEN "abort" ELSE "eval",
                target |-> f.target, name |-> e.Name, inArchive |-> f.isArchive,
                size |-> e.Size, found |-> step.r.isFound, foundText |-> step.r.foundText,
                made |-> step.r.made, loaded |-> step.r.loaded, calls |-> step.r.calls,
                depth |-> Len(stack)])

\* The enumerator of the scope on top of the stack comes to its next entry.
FilterEntry ==
    /\ Running
    /\ Top.pc = "filter"
    /\ \E step \in {EnumeratorStep(Top, Head(Top.pending), PdftotextPath)} :
          TakeStep(Top, Head(Top.pending), step)
    /\ UNCHANGED <<config, TotalFiles, TotalBytes, skipArchiveEntryMask, environment, output>>

\* The enumerator has returned: the matches are sorted when it returned no
\* error, the totals are added up and the scope is printed.
SortReport ==
    /\ Running
    /\ Top.pc = "report"
    /\ LET f == Top
       IN  \E sorted \in (IF f.err = NoError THEN SortSlice(f.ls.MatchedFiles)
                          ELSE {f.ls.MatchedFiles}) :
             /\ stack' = SetTop([f EXCEPT
                            !.ls.MatchedFiles = sorted,
                            !.pc = "recurse",
                            !.archives = IF listInArchives /\ Len(f.ls.Archives) > 0
                                         THEN SortStrings(SeqToSet(f.ls.Archives)) ELSE <<>>,
                            !.subdirs = IF recurse_directories
                                        THEN SortStrings(SeqToSet(f.ls.Subdirs)) ELSE <<>>])
             /\ output' = Append(output,
                    [target |-> f.target, isArchive |-> f.isArchive, recursed |-> f.recursed,
                     err |-> f.err, files |-> IF listfiles \/ listdirectories THEN sorted ELSE <<>>,
                     Filecount |-> f.ls.Filecount, Directorycount |-> f.ls.Directorycount,
                     Bytesfound |-> f.ls.Bytesfound])
    /\ TotalBytes' = TotalBytes + Top.ls.Bytesfound
    /\ TotalFiles' = TotalFiles + Top.ls.Filecount
    /\ trace' = Append(trace, [ev |-> "report", target |-> Top.target, depth |-> Len(stack)])
    /\ UNCHANGED <<config, PdftotextPath, skipArchiveEntryMask, environment, tempFiles>>

\* As DescendArchive, but the archive is entered without pass-through mode.
DescendArchiveMasked ==
    /\ Running
    /\ Top.pc = "recurse"
    /\ Top.archives # <<>>
    /\ LET f == Top
           d == Head(f.archives)
       IN  /\ stack' = Append(SetTop([f EXCEPT !.archives = Tail(@),
                                               !.previousSkip = skipArchiveEntryMask]),
                              Frame(Join(f.target, d), TRUE, TRUE))
           /\ skipArchiveEntryMask' = FALSE
           /\ trace' = Append(trace, [ev |-> "call", target |-> Join(f.target, d),
                                      isArchive |-> TRUE, depth |-> Len(stack) + 1])
    /\ UNCHANGED <<config, PdftotextPath, TotalFiles, TotalBytes, environment, tempFiles, output>>

\* As DescendArchive, but the loop over the archives ends after the one it
\* enters.
DescendArchiveBreaking ==
    /\ Running
    /\ Top.pc = "recurse"
    /\ Top.archives # <<>>
    /\ LET f == Top
           d == Head(f.archives)
       IN  /\ stack' = Append(SetTop([f EXCEPT !.archives = <<>>,
                                               !.previousSkip = skipArchiveEntryMask]),
                              Frame(Join(f.target, d), TRUE, TRUE))
           /\ skipArchiveEntryMask' = (~pathIsArchive /\ archiveNameMatchesMask(d))
           /\ trace' = Append(trace, [ev |-> "call", target |-> Join(f.target, d),
                                      isArchive |-> TRUE, depth |-> Len(stack) + 1])
    /\ UNCHANGED <<config, PdftotextPath, TotalFiles, TotalBytes, environment, tempFiles, output>>

\* The loop over the archives of the scope: the next one is entered.
DescendArchive ==
    /\ Running
    /\ Top.pc = "recurse"
    /\ Top.archives # <<>>
    /\ LET f == Top
           d == Head(f.archives)
       IN  /\ stack' = Append(SetTop([f EXCEPT !.archives = Tail(@),
                                               !.previousSkip = skipArchiveEntryMask]),
                              Frame(Join(f.target, d), TRUE, TRUE))
           /\ skipArchiveEntryMask' = (~pathIsArchive /\ archiveNameMatchesMask(d))
           /\ trace' = Append(trace, [ev |-> "call", target |-> Join(f.target, d),
                                      isArchive |-> TRUE, depth |-> Len(stack) + 1])
    /\ UNCHANGED <<config, PdftotextPath, TotalFiles, TotalBytes, environment, tempFiles, output>>

\* The loop over the subdirectories of the scope, after the archives.
DescendSubdir ==
    /\ Running
    /\ Top.pc = "recurse"
    /\ Top.archives = <<>>
    /\ Top.subdirs # <<>>
    /\ LET f == Top
           d == Head(f.subdirs)
       IN  /\ stack' = Append(SetTop([f EXCEPT !.subdirs = Tail(@)]),
                              Frame(Join(f.target, d), TRUE, FALSE))
           /\ trace' = Append(trace, [ev |-> "call", target |-> Join(f.target, d),
                                      isArchive |-> FALSE, depth |-> Len(stack) + 1])
    /\ UNCHANGED <<config, PdftotextPath, TotalFiles, TotalBytes, skipArchiveEntryMask,
                   environment, tempFiles, output>>

\* As Return, but the error of a scope ends the loops of its caller too.
ReturnPropagating ==
    /\ Running
    /\ Top.pc = "recurse"
    /\ Top.archives = <<>>
    /\ Top.subdirs = <<>>
    /\ stack' = IF Top.err # NoError /\ Len(stack) > 1
                 THEN [SubSeq(stack, 1, Len(stack) - 1) EXCEPT
                          ![Len(stack) - 1].archives = <<>>,
                          ![Len(stack) - 1].subdirs = <<>>]
                 ELSE SubSeq(stack, 1, Len(stack) - 1)
    /\ skipArchiveEntryMask' = IF Len(stack) > 1 /\ Top.isArchive
                               THEN stack[Len(stack) - 1].previousSkip
                               ELSE skipArchiveEntryMask
    /\ trace' = Append(trace, [ev |-> "return", target |-> Top.target, err |-> Top.err,
                               depth |-> Len(stack)])
    /\ UNCHANGED <<config, PdftotextPath, TotalFiles, TotalBytes, environment, tempFiles, output>>

\* As Return, but skipArchiveEntryMask is left as the archive scope had it.
ReturnKeepingSkip ==
    /\ Running
    /\ Top.pc = "recurse"
    /\ Top.archives = <<>>
    /\ Top.subdirs = <<>>
    /\ stack' = SubSeq(stack, 1, Len(stack) - 1)
    /\ trace' = Append(trace, [ev |-> "return", target |-> Top.target, err |-> Top.err,
                               depth |-> Len(stack)])
    /\ UNCHANGED <<config, PdftotextPath, TotalFiles, TotalBytes, skipArchiveEntryMask,
                   environment, tempFiles, output>>

\* list_directory returns; a caller in its loop over archives puts
\* skipArchiveEntryMask back.
Return ==
    /\ Running
    /\ Top.pc = "recurse"
    /\ Top.archives = <<>>
    /\ Top.subdirs = <<>>
    /\ stack' = SubSeq(stack, 1, Len(stack) - 1)
    /\ skipArchiveEntryMask' = IF Len(stack) > 1 /\ Top.isArchive
                               THEN stack[Len(stack) - 1].previousSkip
                               ELSE skipArchiveEntryMask
    /\ trace' = Append(trace, [ev |-> "return", target |-> Top.target, err |-> Top.err,
                               depth |-> Len(stack)])
    /\ UNCHANGED <<config, PdftotextPath, TotalFiles, TotalBytes, environment, tempFiles, output>>

Done == stack = <<>> /\ trace # <<>>

(***************************************************************************)
(* parseCmdLine, one argument at a step.                                   *)
(***************************************************************************)

HasPrefix(s, prefix) ==
    Len(s) >= Len(prefix) /\ SubSeq(s, 1, Len(prefix)) = prefix

\* strings.Split(s, sep) for a separator of one byte.
RECURSIVE Split(_, _)
Split(s, sep) ==
    LET at == {i \in 1..Len(s) : CharAt(s, i) = sep}
    IN  IF at = {} THEN <<s>>
        ELSE LET i == CHOOSE k \in at : \A j \in at : k <= j
             IN  <<SubSeq(s, 1, i - 1)>> \o Split(SubSeq(s, i + 1, Len(s)), sep)

\* Whether the argument is a flag and no file name.
isParam(s) ==
    \/ HasPrefix(s, "-") \/ s = "/?" \/ s = "/help"
    \/ /\ HasPrefix(s, "/")
       /\ \/ Len(s) = 3
          \/ Len(s) = 4 /\ (Contains(s, "-") \/ Contains(s, "+"))

\* The flag of the argument and the values after its "=".
FlagOf(s) ==
    LET p == SubSeq(s, 2, Len(s))
    IN  IF Contains(p, "=") THEN Split(p, "=")[1] ELSE p

ValuesOf(s) ==
    LET p == SubSeq(s, 2, Len(s))
    IN  IF Contains(p, "=") THEN Split(p, "=")[2] ELSE ""

\* How many groups of the expression are open after its last byte, -1 when
\* a group is closed that was not opened.
RECURSIVE OpenGroups(_, _)
OpenGroups(expr, depth) ==
    IF depth < 0 THEN -1
    ELSE IF Len(expr) = 0 THEN depth
    ELSE OpenGroups(Tail(expr), IF Head(expr) = "(" THEN depth + 1
                                ELSE IF Head(expr) = ")" THEN depth - 1
                                ELSE depth)

\* The syntax errors of the expressions of the model, which are literals
\* with or without groups: a group that is not closed or not opened.
RegexpSyntaxError(expr) == OpenGroups(expr, 0) # 0

\* regexp.Compile with its error dropped: the expression is taken as it is.
CompileLenient(expr) ==
    [panic |-> FALSE,
     regex |-> IF HasPrefix(expr, "(?i)") THEN Regexp(SubSeq(expr, 5, Len(expr)), TRUE)
               ELSE Regexp(expr, FALSE)]

\* regexp.MustCompile: the compiled expression, or a panic.
MustCompile(expr) ==
    [panic |-> RegexpSyntaxError(expr),
     regex |-> IF HasPrefix(expr, "(?i)") THEN Regexp(SubSeq(expr, 5, Len(expr)), TRUE)
               ELSE Regexp(expr, FALSE)]

\* The flags at which parseCmdLine prints a text and ends the program.
ExitFlags == {"?", "h", "help", "-help", "-h", "version", "v"}

\* The expression the flag p has compiled from its values.
PatternOf(p, values) == IF p = "ti" THEN "(?i)" \o values ELSE values

\* The sort order the flag p sets.
SortOf(p) ==
    CASE p \in {"on", "o-n"} -> sortorder(SORT_NAME, p = "on")
      [] p \in {"od", "o-d"} -> sortorder(SORT_DATE, p = "od")
      [] p \in {"oc", "o-c"} -> sortorder(SORT_CREATED, p = "oc")
      [] p \in {"oa", "o-a"} -> sortorder(SORT_ACCESSED, p = "oa")
      [] p \in {"ox", "o-x"} -> sortorder(SORT_EXT, p = "ox")
      [] p \in {"ot", "o-t"} -> sortorder(SORT_TYPE, p = "ot")
      [] p \in {"os", "o-s"} -> sortorder(SORT_SIZE, p = "os")
      [] OTHER -> sortby

\* One pass of the loop of parseCmdLine, for an argument that is a flag (a
\* file name goes to parseFileName; the date and size ranges are not among
\* the flags of the model).  A pattern that does not compile ends the
\* program with a panic, the help and version flags end it with os.Exit.
ParseArg ==
    /\ stack = <<>>
    /\ trace = <<>>
    /\ parsed < Len(args)
    /\ isParam(args[parsed + 1])
    /\ \E p \in {FlagOf(args[parsed + 1])}, values \in {ValuesOf(args[parsed + 1])} :
       \E compiled \in {MustCompile(PatternOf(p, values))} :
       \E panic \in {(p \in {"tc", "ti", "tr"}) /\ compiled.panic} :
           /\ parsed' = parsed + 1
           /\ trace' = IF p \in ExitFlags THEN <<[ev |-> "exit", target |-> "", depth |-> 0]>>
                        ELSE IF panic THEN <<[ev |-> "panic", target |-> "", depth |-> 0]>>
                        ELSE trace
           /\ sortby' = SortOf(p)
           /\ listhidden' = IF p = "ah-" THEN FALSE ELSE listhidden
           /\ case_sensitive' = IF p = "cs" THEN TRUE ELSE case_sensitive
           /\ listfiles' = IF p \in {"d+", "t"} THEN FALSE ELSE listfiles
           /\ listdirectories' = IF p = "d+" THEN TRUE
                                  ELSE IF p = "d-" THEN FALSE ELSE listdirectories
           /\ recurse_directories' = IF p = "r" THEN TRUE ELSE recurse_directories
           /\ text_search_type' = CASE p = "tc" -> SEARCH_CASE
                                     [] p = "ti" -> SEARCH_NOCASE
                                     [] p = "tr" -> SEARCH_REGEX
                                     [] OTHER -> text_search_type
           /\ text_regex' = IF p \in {"tc", "ti", "tr"} /\ ~panic THEN compiled.regex
                             ELSE text_regex
           /\ exclude_exts' = IF p \in {"exclude", "x"} THEN Split(ToUpper(values), ",")
                               ELSE exclude_exts
           /\ listInArchives' = IF p = "z" THEN TRUE ELSE listInArchives
    /\ UNCHANGED <<directories_first, only_executables, listFoundText, pathIsArchive, mindate,
                   maxdate, minmaxdatetype, minsize, maxsize, matcher, haveGlobber,
                   include_exts, pw7zip, start_directory, args, PdftotextPath, TotalFiles,
                   TotalBytes, skipArchiveEntryMask, environment, tempFiles, stack, output>>

(***************************************************************************)
(* The traversal specification: dir run on the tree, with the command line *)
(* and the environment drawn from the sets below.                          *)
(***************************************************************************)

\* The start paths and file masks of the command lines: a directory, a
\* directory with a mask, an archive with a mask (dir -z pack.zip/*.txt).
CommandPaths ==
    { [start |-> RootDir, pathIsArchive |-> FALSE, haveGlobber |-> FALSE, mask |-> ""],
      [start |-> RootDir, pathIsArchive |-> FALSE, haveGlobber |-> TRUE, mask |-> "*.zip"],
      [start |-> RootDir, pathIsArchive |-> FALSE, haveGlobber |-> TRUE, mask |-> "*.pdf"],
      [start |-> "/r/pack.zip", pathIsArchive |-> TRUE, haveGlobber |-> TRUE, mask |-> "*.txt"] }

\* The text searches of the command lines: none, or -tc=ab.
CommandSearches ==
    { [type |-> SEARCH_NONE, regex |-> Regexp("", FALSE)],
      [type |-> SEARCH_CASE, regex |-> Regexp("ab", FALSE)] }

CommandSorts == { sortorder(SORT_NAME, TRUE), sortorder(SORT_DATE, FALSE) }

\* The archive entries that may fail to be read.
UnreadableChoices ==
    { {}, {<<"/r/big.7z", "lost.txt">>, <<"/r/data.tgz", "lost.txt">>,
           <<"/r/pack.zip", "alpha.txt">>} }

\* What parseCmdLine leaves when no flag sets it.
InitDefaults ==
    /\ listdirectories = TRUE
    /\ listfiles = TRUE
    /\ listhidden = TRUE
    /\ mindate = ZeroTime
    /\ maxdate = ZeroTime
    /\ minmaxdatetype = "m"
    /\ minsize = -1
    /\ maxsize = MaxInt64
    /\ exclude_exts = <<>>
    /\ include_exts = <<>>
    /\ PdftotextPath = PdftotextUninitialized
    /\ TotalFiles = 0
    /\ TotalBytes = 0
    /\ skipArchiveEntryMask = FALSE
    /\ tempFiles = {}
    /\ stack = <<>>
    /\ output = <<>>
    /\ trace = <<>>

Init ==
    /\ InitDefaults
    /\ only_executables = FALSE
    /\ args = <<>>
    /\ parsed = 0
    /\ pw7zip = ""
    /\ directories_first = TRUE
    /\ case_sensitive = FALSE
    /\ disk = TreeDisk
    /\ \E c \in CommandPaths :
         /\ start_directory = c.start
         /\ pathIsArchive = c.pathIsArchive
         /\ haveGlobber = c.haveGlobber
         /\ matcher = IF case_sensitive THEN c.mask ELSE ToUpper(c.mask)
    /\ \E t \in CommandSearches :
         /\ text_search_type = t.type
         /\ text_regex = t.regex
    /\ sortby \in CommandSorts
    /\ listFoundText \in BOOLEAN
    /\ listInArchives \in BOOLEAN
    /\ recurse_directories \in BOOLEAN
    /\ pdftotextInstalled \in BOOLEAN
    /\ tempDirWritable \in BOOLEAN
    /\ unreadable \in UnreadableChoices

Next ==
    \/ Start
    \/ OpenScope
    \/ FilterEntry
    \/ SortReport
    \/ DescendArchive
    \/ DescendSubdir
    \/ Return

Spec == Init /\ [][Next]_vars

(***************************************************************************)
(* The sort specification: dir run on one directory, whose entries are     *)
(* drawn from a pool, under every sort order of the command line.          *)
(***************************************************************************)

\* The most entries the directory holds.
MaxItems == 4

\* The entries a directory may hold, each with a size and dates of its own
\* (two pairs were created at one time):
\* a directory, files of several types, a file with a base name of one
\* letter, two files of one extension, a file that is executable by its mode.
SortPool ==
    << Touched(DiskDir("docs", 4), 1, 6),
       Touched(DiskFile("setup.exe", RegularMode, 7, "cccccc"), 3, 9),
       Touched(DiskFile("notes.txt", RegularMode, 2, "c"), 2, 8),
       Touched(DiskFile("photo.jpg", RegularMode, 6, "ccc"), 5, 7),
       Touched(DiskFile("b.txt", RegularMode, 1, "cccc"), 1, 5),
       Touched(DiskFile("Zed.txt", RegularMode, 5, "cc"), 4, 10),
       Touched(DiskFile("run", ExecutableMode, 3, "ccccc"), 2, 4) >>

\* The entries of the pool at the places in picked, in the order of the pool.
RECURSIVE PoolListing(_, _)
PoolListing(picked, i) ==
    IF i > Len(SortPool) THEN <<>>
    ELSE (IF i \in picked THEN <<SortPool[i]>> ELSE <<>>) \o PoolListing(picked, i + 1)

\* The sort fields the command line can set: on, od, oc, oa, os, ot, ox.
SortFields ==
    {SORT_NAME, SORT_DATE, SORT_CREATED, SORT_ACCESSED, SORT_SIZE, SORT_TYPE, SORT_EXT}

InitSort ==
    /\ InitDefaults
    /\ only_executables = FALSE
    /\ args = <<>>
    /\ parsed = 0
    /\ pw7zip = ""
    /\ \E picked \in SUBSET (1..Len(SortPool)) :
         /\ Cardinality(picked) <= MaxItems
         /\ disk = (RootDir :> PoolListing(picked, 1))
    /\ \E field \in SortFields, ascending \in BOOLEAN : sortby = sortorder(field, ascending)
    /\ directories_first = TRUE
    /\ case_sensitive \in BOOLEAN
    /\ start_directory = RootDir
    /\ pathIsArchive = FALSE
    /\ haveGlobber = FALSE
    /\ matcher = ""
    /\ text_search_type = SEARCH_NONE
    /\ text_regex = Regexp("", FALSE)
    /\ listFoundText = FALSE
    /\ listInArchives = FALSE
    /\ recurse_directories = FALSE
    /\ pdftotextInstalled = TRUE
    /\ tempDirWritable = TRUE
    /\ unreadable = {}

NextSort ==
    \/ Start
    \/ OpenScope
    \/ FilterEntry
    \/ SortReport
    \/ Return

SpecSort == InitSort /\ [][NextSort]_vars

(***************************************************************************)
(* The password specification: dir -z run on a directory that holds an     *)
(* encrypted 7-Zip archive, with and without a password on the command     *)
(* line.                                                                   *)
(***************************************************************************)

\* The passwords of the command lines: none, -zpw=password, -zpw=letmein.
CommandPasswords == {"", "password", "letmein"}

InitPassword ==
    /\ InitDefaults
    /\ only_executables = FALSE
    /\ args = <<>>
    /\ parsed = 0
    /\ disk = VaultDisk
    /\ pw7zip \in CommandPasswords
    /\ sortby = sortorder(SORT_NAME, TRUE)
    /\ directories_first = TRUE
    /\ case_sensitive = FALSE
    /\ start_directory = RootDir
    /\ pathIsArchive = FALSE
    /\ haveGlobber = FALSE
    /\ matcher = ""
    /\ \E t \in CommandSearches :
         /\ text_search_type = t.type
         /\ text_regex = t.regex
    /\ listFoundText \in BOOLEAN
    /\ listInArchives \in BOOLEAN
    /\ recurse_directories \in BOOLEAN
    /\ pdftotextInstalled = TRUE
    /\ tempDirWritable = TRUE
    /\ unreadable \in {{}, {<<"/r/big.7z", "lost.txt">>}}

SpecPassword == InitPassword /\ [][Next]_vars

(***************************************************************************)
(* The command-line specification: dir run in a directory with a command   *)
(* line of flags, from the first pass of parseCmdLine on.                  *)
(***************************************************************************)

\* The most arguments of a command line.
MaxArgs == 2

\* The flags of the command lines.
ArgPool ==
    {"-r", "-z", "-d-", "-tc=ab", "-tr=a(", "-ti=ab)", "-x=mov,bak", "-o-d", "-version"}

\* The command lines of at most n flags.
RECURSIVE CommandLines(_)
CommandLines(n) ==
    IF n = 0 THEN {<<>>}
    ELSE CommandLines(n - 1)
         \cup {Append(line, flag) : line \in {l \in CommandLines(n - 1) : Len(l) = n - 1},
                                     flag \in ArgPool}

\* The directory dir is run in.
ParseDisk ==
    (RootDir :> << DiskFile("clip.mov", RegularMode, 5, "ab"),
                   DiskFile("a.mov", RegularMode, 4, "ab"),
                   DiskFile("Film.MOV", RegularMode, 3, "cc"),
                   DiskFile("old.bak", RegularMode, 2, "ab"),
                   DiskFile("mov", RegularMode, 2, "ab"),
                   DiskFile("reel.zip", RegularMode, 6, "PK2"),
                   DiskFile("report.pdf", RegularMode, 2, "%ab"),
                   DiskFile("run.sh", ExecutableMode, 7, "ab"),
                   DiskDir("sub", 3),
                   DiskFile("Box.zip", RegularMode, 8, "PK2"),
                   DiskDir("Zoo", 4) >>)
    @@ (SubDir :> << DiskFile("deep.txt", ExecutableMode, 1, "ab") >>)
    @@ ("/r/Zoo" :> << DiskFile("cage.txt", RegularMode, 1, "cc") >>)

InitParse ==
    /\ InitDefaults
    /\ only_executables = FALSE
    /\ args \in CommandLines(MaxArgs)
    /\ parsed = 0
    /\ disk = ParseDisk
    /\ sortby = sortorder(SORT_NAME, TRUE)
    /\ directories_first = TRUE
    /\ case_sensitive = FALSE
    /\ start_directory = ""
    /\ pathIsArchive = FALSE
    /\ haveGlobber = FALSE
    /\ matcher = ""
    /\ text_search_type = SEARCH_NONE
    /\ text_regex = Regexp("", FALSE)
    /\ listFoundText = FALSE
    /\ listInArchives = FALSE
    /\ recurse_directories = FALSE
    /\ pw7zip = ""
    /\ pdftotextInstalled = TRUE
    /\ tempDirWritable = TRUE
    /\ unreadable = {}

NextParse ==
    \/ ParseArg
    \/ Next

SpecParse == InitParse /\ [][NextParse]_vars

(***************************************************************************)
(* The executable-only specification: dir run with and without the flag    *)
(* that sets only_executables (-ax), with and without -ct, -z, -r and a    *)
(* text search.                                                            *)
(***************************************************************************)

InitExecutable ==
    /\ InitDefaults
    /\ only_executables \in BOOLEAN
    /\ args = <<>>
    /\ parsed = 0
    /\ disk = ParseDisk
    /\ sortby = sortorder(SORT_NAME, TRUE)
    /\ directories_first = TRUE
    /\ case_sensitive = FALSE
    /\ \E c \in {c \in CommandPaths : c.start = RootDir /\ c.mask \in {"", "*.zip"}} :
         /\ start_directory = c.start
         /\ pathIsArchive = c.pathIsArchive
         /\ haveGlobber = c.haveGlobber
         /\ matcher = ToUpper(c.mask)
    /\ \E t \in CommandSearches :
         /\ text_search_type = t.type
         /\ text_regex = t.regex
    /\ listFoundText \in BOOLEAN
    /\ listInArchives \in BOOLEAN
    /\ recurse_directories \in BOOLEAN
    /\ pw7zip = ""
    /\ pdftotextInstalled \in BOOLEAN
    /\ tempDirWritable = TRUE
    /\ unreadable = {}

SpecExecutable == InitExecutable /\ [][Next]_vars

(***************************************************************************)
(* The properties.                                                         *)
(***************************************************************************)

\* The places of the trace where an enumerator evaluated an entry.
Evals == {i \in 1..Len(trace) : trace[i].ev = "eval"}

\* The places of the trace where the search of an entry of an archive made
\* a temporary file.
TempEvals == {i \in Evals : trace[i].inArchive /\ trace[i].made # {}}

\* C1: every temporary file that archiveFileTextSearchFromData creates for
\* an Office or PDF entry of an archive is gone when the call returns, on
\* every exit path: after each step of the run no temporary file is on disk.
C1_TempFileRemoved == tempFiles = {}

\* A run in which a temporary file was made on each exit path: for an entry
\* that matched, for a PDF with the utility missing or failing, and for an
\* Office document that could not be unpacked.
C1_Witness ==
    /\ \E i \in TempEvals : trace[i].found
    /\ \E i \in TempEvals : ~trace[i].found /\ trace[i].name = "form.xlsx"
    /\ \E i \in TempEvals : ~trace[i].found /\ trace[i].name = "torn.docx"
    /\ \E i \in TempEvals :
          /\ ~trace[i].found
          /\ trace[i].name = "junk.pdf"
          /\ (PdftotextPath = "" \/ "pdftotext" \in SeqToSet(trace[i].calls))
    /\ tempFiles = {}

\* The bytes of the entry name of the directory or archive at path.
RawOf(inArchive, path, name) ==
    IF inArchive
    THEN ArchiveFile(path).entries[EntryNamed(ArchiveFile(path).entries, name)].raw
    ELSE DiskEntry(path, name).file.raw

\* The content of a file of these bytes, in every form a search may read it:
\* the bytes, the text of a PDF, the parts of an Office document.
ContentViews(raw) ==
    {raw}
    \cup (IF PdftotextOutput(raw).ok THEN {PdftotextOutput(raw).text} ELSE {})
    \cup {UnzipBytes(raw).parts[k].raw : k \in 1..Len(UnzipBytes(raw).parts)}

\* C2: with a text search active, every entry that fileMeetsConditions
\* accepts and that is taken into MatchedFiles is a file whose content
\* contains a match of the pattern.
C2_MatchedContentMatches ==
    text_search_type # SEARCH_NONE =>
        \A i \in Evals :
            trace[i].found =>
                \E view \in ContentViews(RawOf(trace[i].inArchive, trace[i].target,
                                               trace[i].name)) :
                    RegexMatch(text_regex, view)

\* The scopes that were reported after a sort: their enumerator gave no error.
SortedScopes == {k \in 1..Len(output) : output[k].err = NoError}

\* C3: with directories-first enabled, in the sorted MatchedFiles of every
\* scope each directory precedes each entry that is no directory, for every
\* sort field, ascending and descending.
C3_DirectoriesFirst ==
    directories_first =>
        \A k \in SortedScopes :
            \A i, j \in 1..Len(output[k].files) :
                (output[k].files[i].IsDir /\ ~output[k].files[j].IsDir) => i < j

Reverse(q) == [i \in 1..Len(q) |-> q[Len(q) + 1 - i]]

\* The key of an item under a sort field.
SortKey(item, field) ==
    CASE field = SORT_NAME ->
           <<ternaryString(case_sensitive, item.Name, ToUpper(item.Name))>>
      [] field = SORT_DATE -> <<item.Modified>>
      [] field = SORT_ACCESSED -> <<item.Accessed>>
      [] field = SORT_CREATED -> <<item.Created>>
      [] field = SORT_SIZE -> <<item.Size>>
      [] field = SORT_TYPE -> <<FileType(item), Extension(item), item.Name>>
      [] field = SORT_EXT -> <<Extension(item), item.Name>>
      [] OTHER -> <<item.Name>>

DistinctKeys(items, field) ==
    \A i, j \in 1..Len(items) :
        i # j => SortKey(items[i], field) # SortKey(items[j], field)

\* Directories-first does not bear on the order of these items.
NoDirectoryRule(items) ==
    \/ ~directories_first
    \/ \A i, j \in 1..Len(items) : items[i].IsDir = items[j].IsDir

\* C4: a descending sort reverses the order: for every sort field, the
\* descending listing of entries with distinct keys is the reverse of the
\* ascending listing of the same entries.
C4_DescendingReverses ==
    \A k \in SortedScopes :
        (/\ ~sortby.ascending
         /\ DistinctKeys(output[k].files, sortby.field)
         /\ NoDirectoryRule(output[k].files))
        => \A asc \in SortedOrders(output[k].files, 1..Len(output[k].files),
                                    sortorder(sortby.field, TRUE), directories_first,
                                    case_sensitive) :
              output[k].files = Reverse(asc)

\* Whether the enumerator of a scope came to the end of its directory or
\* archive: it could be opened, and no entry made the enumerator give up.
EnumeratedSuccessfully(target) ==
    /\ \E i \in 1..Len(trace) :
          trace[i].ev = "open" /\ trace[i].target = target
          /\ (PathExists(target) /\ (target \in DOMAIN disk \/ ArchiveFile(target).ok))
    /\ ~\E i \in 1..Len(trace) : trace[i].ev = "abort" /\ trace[i].target = target

\* C5: in every scope that was enumerated successfully, a directory, a ZIP
\* archive, a gzip+TAR archive or a 7-Zip archive, the matches are reported
\* in the order of the configured sort: no match is less than one before it.
C5_ReportedInSortOrder ==
    \A k \in 1..Len(output) :
        EnumeratedSuccessfully(output[k].target) =>
            \A i, j \in 1..Len(output[k].files) :
                i < j => ~less(output[k].files[j], output[k].files[i])

\* The rank table of the type sort as the claim gives it.
ClaimedRank(ft) ==
    CASE ft = DIRECTORY -> 1
      [] ft = HIDDEN -> 2
      [] ft = NONE -> 3
      [] ft = DEFAULT -> 4
      [] ft = CODE -> 5
      [] ft = EXECUTABLE -> 6
      [] ft = CONFIG -> 7
      [] ft = DATA -> 8
      [] ft = DOCUMENT -> 9
      [] ft = AUDIO -> 10
      [] ft = IMAGE -> 11
      [] ft = VIDEO -> 12   \* not in the claim's table
      [] ft = ARCHIVE -> 13
      [] OTHER -> 0

HasSuffix(s, suffix) ==
    Len(s) >= Len(suffix) /\ SubSeq(s, Len(s) - Len(suffix) + 1, Len(s)) = suffix

\* The place of an item in the scenario: a directory, an .exe, a .txt,
\* a .jpg; 0 for any other item.
ScenarioPlace(item) ==
    IF item.IsDir THEN 1
    ELSE IF HasSuffix(item.Name, ".exe") THEN 2
    ELSE IF HasSuffix(item.Name, ".txt") THEN 3
    ELSE IF HasSuffix(item.Name, ".jpg") THEN 4
    ELSE 0

\* The order of two items the claim gives for the type sort.
ClaimedTypeOrder(a, b) ==
    IF ClaimedRank(FileType(a)) # ClaimedRank(FileType(b))
    THEN ClaimedRank(FileType(a)) < ClaimedRank(FileType(b))
    ELSE IF Extension(a) # Extension(b) THEN StrLess(Extension(a), Extension(b))
    ELSE ~StrLess(ternaryString(case_sensitive, b.Name, ToUpper(b.Name)),
                  ternaryString(case_sensitive, a.Name, ToUpper(a.Name)))

\* C6: under sort-by-type ascending the entries come in the order of the
\* rank table, then of the extension, then of the name; a directory, an
\* .exe, a .txt and a .jpg come out in that order.
C6_TypeSortOrder ==
    (sortby = sortorder(SORT_TYPE, TRUE)) =>
        \A k \in SortedScopes :
            \A i, j \in 1..Len(output[k].files) :
                i < j =>
                    /\ ClaimedTypeOrder(output[k].files[i], output[k].files[j])
                    /\ (ScenarioPlace(output[k].files[i]) # 0
                        /\ ScenarioPlace(output[k].files[j]) # 0)
                       => ScenarioPlace(output[k].files[i]) <= ScenarioPlace(output[k].files[j])

\* The directory a path lies in.
DirOf(path) == SubSeq(path, 1, LastIndex1(path, "/") - 1)

\* The scopes that were reported for an archive that cannot be opened.
UnopenableScopes ==
    {k \in 1..Len(output) :
        output[k].isArchive /\ ~(PathExists(output[k].target) /\ ArchiveFile(output[k].target).ok)}

\* The archives and the subdirectories of the directory dir that the run is
\* to enter, by the command line.
ChildScopes(dir) ==
    {Join(dir, disk[dir][n].Name) : n \in
        {n \in 1..Len(disk[dir]) :
            \/ listInArchives /\ IsArchive(makefileitem(disk[dir][n], dir))
            \/ recurse_directories /\ disk[dir][n].IsDir}}

Called(target) == \E i \in 1..Len(trace) : trace[i].ev = "call" /\ trace[i].target = target

Reported(target) == \E k \in 1..Len(output) : output[k].target = target

\* C7: an archive that cannot be opened yields a scope without entries and
\* the traversal goes on: at the end of the run every archive and every
\* subdirectory collected in the same directory has been visited.
C7_UnopenableArchiveIsolated ==
    \A k \in UnopenableScopes :
        /\ output[k].files = <<>>
        /\ output[k].Filecount = 0 /\ output[k].Directorycount = 0
        /\ Done =>
              \A sibling \in ChildScopes(DirOf(output[k].target)) :
                  Called(sibling) /\ Reported(sibling)

\* The run is over; bad.zip could not be opened, and the archives after it
\* and the subdirectory were visited with matches of their own.
C7_Witness ==
    /\ Done
    /\ \E k \in UnopenableScopes : output[k].target = "/r/bad.zip"
    /\ \E k, m \in 1..Len(output) :
          /\ k \in UnopenableScopes
          /\ k < m
          /\ output[m].target = "/r/pack.zip"
          /\ output[m].files # <<>>
    /\ \E m \in 1..Len(output) : output[m].target = SubDir /\ output[m].files # <<>>

\* The scopes that were reported for an archive that could be opened.
OpenedArchiveScopes ==
    {k \in 1..Len(output) :
        output[k].isArchive /\ PathExists(output[k].target) /\ ArchiveFile(output[k].target).ok}

\* The enumerator came to the entry name of the scope target.
CameTo(target, name) ==
    \E i \in 1..Len(trace) :
        /\ trace[i].ev \in {"eval", "skip", "abort"}
        /\ trace[i].target = target
        /\ trace[i].name = name

\* C8: a failure to read one entry of an archive bears on that entry only:
\* every entry of a ZIP, gzip+TAR or 7-Zip archive, also one after an entry
\* that could not be read, has been evaluated when the scope is reported.
C8_EntryFailureIsolated ==
    \A k \in OpenedArchiveScopes :
        \A n \in 1..Len(ArchiveFile(output[k].target).entries) :
            CameTo(output[k].target, ArchiveFile(output[k].target).entries[n].Name)

\* C9: with a text search active, an entry of an archive that is larger than
\* the largest entry to be held in memory is never loaded and never matches,
\* in a ZIP, a gzip+TAR and a 7-Zip archive.
C9_LargeEntryNotLoaded ==
    text_search_type # SEARCH_NONE =>
        \A i \in Evals :
            (trace[i].inArchive /\ trace[i].size > MaxEntryBytes) =>
                ~trace[i].found /\ trace[i].loaded = {}

IsPdfName(name) == HasSuffix(ToLower(name), ".pdf")

\* The places of the trace where a PDF was evaluated.
PdfEvals == {i \in Evals : IsPdfName(trace[i].name)}

\* The run is over and no scope was left out: the start scope and, for every
\* directory that was reported, each archive and subdirectory to enter.
TraversalCompleted ==
    Done =>
        /\ Reported(start_directory)
        /\ \A k \in 1..Len(output) :
              ~output[k].isArchive =>
                  /\ \A c \in ChildScopes(output[k].target) : Reported(c)
                  /\ \A n \in 1..Len(disk[output[k].target]) :
                        CameTo(output[k].target, disk[output[k].target][n].Name)

\* C10: when pdftotext cannot be found, a content search on a PDF yields no
\* match for it, on disk and inside an archive, and the traversal is not
\* aborted.
C10_MissingUtilityNoMatch ==
    (~pdftotextInstalled /\ text_search_type # SEARCH_NONE) =>
        /\ \A i \in PdfEvals : ~trace[i].found
        /\ TraversalCompleted

\* The fileitem of the file of the disk that was evaluated at place i of the trace.
DiskItemAt(i) == makefileitem(DiskEntry(trace[i].target, trace[i].name).file, trace[i].target)

\* C10, amended: when pdftotext cannot be found it is never run; a PDF inside
\* an archive for which the temporary file was made yields no match, and one
\* for which it could not be made matches only on its raw bytes; a PDF on
\* disk passes the other conditions and matches exactly when the chunked
\* search of its raw bytes finds the pattern; the traversal is not aborted.
C10_MissingUtilityRawBytes ==
    (~pdftotextInstalled /\ text_search_type # SEARCH_NONE) =>
        /\ \A i \in PdfEvals :
              /\ "pdftotext" \notin SeqToSet(trace[i].calls)
              /\ (trace[i].inArchive /\ trace[i].made # {}) => ~trace[i].found
              /\ (trace[i].inArchive /\ trace[i].made = {} /\ trace[i].found) =>
                    RegexMatch(text_regex, RawOf(TRUE, trace[i].target, trace[i].name))
              /\ ~trace[i].inArchive =>
                    trace[i].found = (/\ PassesNonTextConditions(DiskItemAt(i))
                                      /\ diskFileTextSearch(DiskItemAt(i)).found
                                      /\ (only_executables =>
                                             PassesExecutableCheck(DiskItemAt(i))))
        /\ TraversalCompleted

\* A run without pdftotext that is over: a PDF on disk matched on its raw
\* bytes, another did not, and a PDF inside an archive was written to a
\* temporary file and did not match, though its raw bytes hold the pattern.
C10_Witness ==
    /\ ~pdftotextInstalled
    /\ text_search_type # SEARCH_NONE
    /\ Done
    /\ \E i \in PdfEvals : ~trace[i].inArchive /\ trace[i].found
    /\ \E i \in PdfEvals : ~trace[i].inArchive /\ ~trace[i].found
    /\ \E i \in PdfEvals :
          /\ trace[i].inArchive /\ trace[i].made # {} /\ ~trace[i].found
          /\ RegexMatch(text_regex, RawOf(TRUE, trace[i].target, trace[i].name))

\* The calls of resolveCommand of the run so far: <<place of the trace, place
\* among the calls of that evaluation>>.
ResolveCalls ==
    {p \in UNION {{<<i, k>> : k \in 1..Len(trace[i].calls)} : i \in Evals} :
        trace[p[1]].calls[p[2]] = "resolveCommand"}

\* C11: in one run resolveCommand is invoked at most once; PdftotextPath is
\* the uninitialised value exactly as long as it was not invoked, and the
\* resolved path or the not-found sentinel ever after; and no evaluation of
\* a file that is no PDF invokes it.
C11_ResolvedAtMostOnce ==
    /\ Cardinality(ResolveCalls) <= 1
    /\ (ResolveCalls = {}) = (PdftotextPath = PdftotextUninitialized)
    /\ ResolveCalls # {} =>
          PdftotextPath = (IF pdftotextInstalled THEN PdftotextResolved ELSE "")
    /\ \A p \in ResolveCalls : IsPdfName(trace[p[1]].name)

\* A run that is over in which the first PDF resolved the utility, a later
\* PDF ran it without resolving again, and a file on disk that is no PDF
\* went through PDFText to the search of its raw bytes.
C11_Witness ==
    /\ Done
    /\ \E i, j \in PdfEvals :
          /\ i < j
          /\ <<i, 1>> \in ResolveCalls
          /\ trace[j].calls = <<"pdftotext">>
    /\ \E i \in Evals :
          /\ ~trace[i].inArchive /\ ~IsPdfName(trace[i].name)
          /\ trace[i].calls = <<"diskFileTextSearch">>

\* The places of the trace where the text search came to unpack an Office
\* document and gave no match: the container did not open, or no part matched.
FailedUnpacks == {i \in Evals : "unzip" \in SeqToSet(trace[i].calls) /\ ~trace[i].found}

\* C12: when unpacking an Office document fails, because the container
\* cannot be opened or because no part matched, the raw bytes of the document
\* are scanned as plain text before no match is declared: a document on disk
\* went through the search of its raw bytes, and the raw bytes of a document
\* from an archive do not hold the pattern.
C12_OfficeFallbackToRawBytes ==
    \A i \in FailedUnpacks :
        IF trace[i].inArchive
        THEN ~RegexMatch(text_regex, RawOf(TRUE, trace[i].target, trace[i].name))
        ELSE "diskFileTextSearch" \in SeqToSet(trace[i].calls)

\* The places of the trace where the text search came to a file on disk that
\* is no directory.
DiskSearchEvals ==
    {i \in Evals : /\ ~trace[i].inArchive
                   /\ text_search_type # SEARCH_NONE
                   /\ ~DiskItemAt(i).IsDir
                   /\ PassesNonTextConditions(DiskItemAt(i))}

\* Find-all mode gives no fewer excerpts than first-match mode gives matches.
NotFewer(firstMatch, findAll) == firstMatch.found => (findAll.found /\ findAll.text # "")

\* C13: for the same bytes and pattern, whenever first-match mode reports a
\* match, find-all mode reports a match with at least one excerpt: for
\* matchTextBuffer on the bytes of every file the search came to, for the
\* chunked disk search of the file, and for the search of an Office document
\* on disk.
C13_FindAllNotFewer ==
    \A i \in DiskSearchEvals :
        LET item == DiskItemAt(i)
            raw == RawOf(FALSE, trace[i].target, trace[i].name)
        IN  /\ NotFewer(matchTextBuffer(text_regex, raw, FALSE),
                        matchTextBuffer(text_regex, raw, TRUE))
            /\ NotFewer(DiskSearch(item, FALSE), DiskSearch(item, TRUE))
            /\ (Extension(item) \in OfficeExtensions /\ UnzipBytes(raw).ok) =>
                  NotFewer(OfficeSearchOnDisk(item, UnzipBytes(raw).parts, FALSE),
                           OfficeSearchOnDisk(item, UnzipBytes(raw).parts, TRUE))

\* The pattern occurs in raw across the end of a block of the chunked search:
\* it begins at or before the last byte of a block and ends after it.
SpansBoundary(raw, regex) ==
    \E k \in 1..Len(raw) :
        /\ k + Len(regex.pattern) - 1 <= Len(raw)
        /\ RegexFold(regex, SubSeq(raw, k, k + Len(regex.pattern) - 1))
              = RegexFold(regex, regex.pattern)
        /\ \E block \in 1..Len(raw) :
              /\ k <= block * ChunkSize
              /\ block * ChunkSize < k + Len(regex.pattern) - 1

\* C14: the chunked disk search finds a match shorter than the overlap that
\* spans a block boundary of a file larger than one chunk.
C14_BoundaryMatchFound ==
    \A i \in DiskSearchEvals :
        (/\ "diskFileTextSearch" \in SeqToSet(trace[i].calls)
         /\ trace[i].size > ChunkSize
         /\ Len(text_regex.pattern) < OverlapSize
         /\ SpansBoundary(RawOf(FALSE, trace[i].target, trace[i].name), text_regex))
        => DiskSearch(DiskItemAt(i), listFoundText).found

\* The items of the scopes reported so far.
ReportedItems == UNION {SeqToSet(output[k].files) : k \in 1..Len(output)}

\* An item with the IsDir, Mode and Name of f and other values in every
\* other field.
SameKindNameMode(f) ==
    fileitem("/elsewhere", f.Name, f.Size + 1, f.Modified + 1, f.Created + 1, f.Accessed + 1,
             f.IsDir, f.Mode, "link", ~f.InArchive)

\* C15: FileType() is idempotent: for every item of a scope sorted by type,
\* after the first call every later call returns the same type and leaves
\* the cached type as it is, and the type is that of any item with the same
\* IsDir, Mode and Name.
C15_FileTypeIdempotent ==
    sortby.field = SORT_TYPE =>
        \A f \in ReportedItems :
            /\ FileType(AfterFileType(f)) = FileType(f)
            /\ AfterFileType(AfterFileType(f)) = AfterFileType(f)
            /\ AfterFileType(f).ft # NONE
            /\ FileType(SameKindNameMode(f)) = FileType(f)

\* A scope was sorted by type, which calls FileType() over and again on its
\* items, and it holds a directory, an executable, a file classed by its
\* extension and one with no class.
C15_Witness ==
    /\ sortby.field = SORT_TYPE
    /\ \E k \in SortedScopes :
          /\ \E f \in SeqToSet(output[k].files) : FileType(f) = DIRECTORY
          /\ \E f \in SeqToSet(output[k].files) : FileType(f) = EXECUTABLE
          /\ \E f \in SeqToSet(output[k].files) : FileType(f) = IMAGE
          /\ \E f \in SeqToSet(output[k].files) : FileType(f) = DEFAULT

\* Whether the entry that was evaluated at place i of the trace is a
\* directory, in its directory or archive.
IsDirectoryEntry(i) ==
    IF trace[i].inArchive
    THEN ArchiveFile(trace[i].target).entries[
             EntryNamed(ArchiveFile(trace[i].target).entries, trace[i].name)].IsDir
    ELSE DiskEntry(trace[i].target, trace[i].name).file.IsDir

\* C16: with a content query configured and the text search not suppressed,
\* fileMeetsConditions returns false for every directory entry and runs no
\* content-search routine for it: no extraction from an archive, no unpack
\* of an Office document, no PDF conversion, no read of the disk.
C16_DirectoriesNeverSearched ==
    text_search_type # SEARCH_NONE =>
        \A i \in Evals :
            IsDirectoryEntry(i) =>
                /\ ~trace[i].found
                /\ trace[i].calls = <<>>
                /\ trace[i].loaded = {}
                /\ trace[i].made = {}

\* The file name of a path.
BaseOf(path) == SubSeq(path, LastIndex1(path, "/") + 1, Len(path))

\* The name matches the name mask of the command line.
NameMatchesMask(name) ==
    GlobMatch(matcher, ternaryString(case_sensitive, name, ToUpper(name)))

\* The claimed rule of pass-through mode for the archive scope at a path: the
\* scope was entered by a descent from a directory, the start path is no
\* archive, and the file name of the archive matches the name mask.
PassThroughScope(path) ==
    /\ path # start_directory
    /\ ~pathIsArchive
    /\ haveGlobber
    /\ NameMatchesMask(BaseOf(path))

\* The places of the trace where an entry of an archive was evaluated while
\* a name mask was set.
MaskedArchiveEvals == {i \in Evals : trace[i].inArchive /\ haveGlobber}

\* C17: while an archive scope that was entered by a descent is open,
\* pass-through mode is set exactly when the start path is no archive and
\* the file name of the archive matches the name mask, and it is not set at
\* any other time; the entries of an archive in pass-through mode are
\* accepted whatever their names (all of them when no text is searched), and
\* without it only entries whose names match the mask are accepted.
C17_PassThroughRule ==
    /\ skipArchiveEntryMask =
          (Running /\ Top.isArchive /\ Len(stack) > 1 /\ PassThroughScope(Top.target))
    /\ \A i \in MaskedArchiveEvals :
          IF PassThroughScope(trace[i].target)
          THEN text_search_type = SEARCH_NONE => trace[i].found
          ELSE trace[i].found => NameMatchesMask(trace[i].name)

\* A run that is over in which an entry whose name does not match the mask
\* was accepted in an archive in pass-through mode, and another such entry
\* was rejected in an archive that was entered without it.
C17_Witness ==
    /\ Done
    /\ \E i \in MaskedArchiveEvals :
          /\ PassThroughScope(trace[i].target)
          /\ trace[i].found /\ ~NameMatchesMask(trace[i].name)
    /\ \E i \in MaskedArchiveEvals :
          /\ ~PassThroughScope(trace[i].target)
          /\ trace[i].target # start_directory
          /\ ~trace[i].found /\ ~NameMatchesMask(trace[i].name)

\* C18: once the traversal has begun, the only package-level state that
\* changes is the totals TotalFiles and TotalBytes: the query configuration,
\* PdftotextPath and skipArchiveEntryMask keep their values.
C18_OnlyTotalsChange ==
    [][trace # <<>> => UNCHANGED <<config, PdftotextPath, skipArchiveEntryMask>>]_vars

\* C18, amended: once the traversal has begun, the query configuration keeps
\* its values; what changes is the totals, which never decrease,
\* PdftotextPath, which changes only away from the uninitialised value, and
\* skipArchiveEntryMask, which changes only as an archive scope is entered
\* or left.
C18_ConfigurationFixed ==
    [][trace # <<>> =>
          /\ UNCHANGED config
          /\ TotalFiles' >= TotalFiles
          /\ TotalBytes' >= TotalBytes
          /\ PdftotextPath' # PdftotextPath => PdftotextPath = PdftotextUninitialized
          /\ skipArchiveEntryMask' # skipArchiveEntryMask =>
                /\ Len(stack') # Len(stack)
                /\ \/ Len(stack') > Len(stack) /\ stack'[Len(stack')].isArchive
                   \/ Len(stack') < Len(stack) /\ Top.isArchive]_vars

\* A run that is over in which files were counted, the path of pdftotext was
\* resolved and an archive was entered in pass-through mode.
C18_Witness ==
    /\ Done
    /\ TotalFiles > 0 /\ TotalBytes > 0
    /\ PdftotextPath # PdftotextUninitialized
    /\ \E i \in 1..Len(trace) :
          trace[i].ev = "call" /\ trace[i].isArchive /\ PassThroughScope(trace[i].target)

\* The places of the trace where the enumerator of an archive came to an
\* entry that is itself an archive or a directory.
NestedEntries ==
    {i \in 1..Len(trace) :
        /\ trace[i].ev \in {"eval", "skip"}
        /\ trace[i].inArchive
        /\ \/ FileIsArchiveType(trace[i].name) # ARCHIVE_NA
           \/ IsDirectoryEntry(i)}

\* C19: an archive scope starts no other scope: only the innermost call of
\* list_directory is ever one for an archive, so at most one archive scope
\* is open, and no scope is ever entered for an entry of an archive.
C19_ArchiveScopeIsLeaf ==
    /\ \A n \in 1..Len(stack) : stack[n].isArchive => n = Len(stack)
    /\ \A i \in NestedEntries : ~Called(Join(trace[i].target, trace[i].name))

\* A run with -z and -r that is over, in which an archive held an archive and
\* a directory.
C19_Witness ==
    /\ Done
    /\ listInArchives /\ recurse_directories
    /\ \E i \in NestedEntries : FileIsArchiveType(trace[i].name) # ARCHIVE_NA
    /\ \E i \in NestedEntries : IsDirectoryEntry(i)

\* The places of the trace where the enumerator of an archive came to an entry.
EnumeratedEntries ==
    {i \in 1..Len(trace) : trace[i].ev \in {"eval", "skip", "abort"} /\ trace[i].inArchive}

\* The extract function of the adapter of the archive at path, called for
\* the entry name with offset 0 and the size the enumeration gave.
AdapterExtract(path, name, size) ==
    CASE FileIsArchiveType(path) = ARCHIVE_ZIP -> extractZipFileBytes(path, name, 0, size)
      [] FileIsArchiveType(path) = ARCHIVE_7Z -> extract7ZFileBytes(path, name, 0, size)
      [] OTHER -> extractTgzFileBytes(path, name, 0, size)

\* C20: for each adapter, the extract function called with offset 0 and the
\* enumerated size for an entry of the enumeration returns exactly that
\* number of bytes.
C20_ExtractReturnsDeclaredSize ==
    \A i \in EnumeratedEntries :
        Len(AdapterExtract(trace[i].target, trace[i].name, trace[i].size).data) = trace[i].size

\* C20, amended: an extract function that returns no error returns exactly
\* the enumerated number of bytes; the ZIP and the 7-Zip function that return
\* an error return no bytes with it.
C20_ExtractReturnsDeclaredSizeOrError ==
    \A i \in EnumeratedEntries :
        LET x == AdapterExtract(trace[i].target, trace[i].name, trace[i].size)
        IN  IF x.err = NoError THEN Len(x.data) = trace[i].size
            ELSE FileIsArchiveType(trace[i].target) # ARCHIVE_TGZ => x.data = ""

\* A run that is over in which a ZIP, a gzip+TAR and a 7-Zip archive were
\* enumerated, entries with bytes were extracted for the text search, and an
\* entry that cannot be opened was among the enumerated ones.
C20_Witness ==
    /\ Done
    /\ \A type \in {ARCHIVE_ZIP, ARCHIVE_TGZ, ARCHIVE_7Z} :
          \E i \in EnumeratedEntries :
              /\ FileIsArchiveType(trace[i].target) = type
              /\ trace[i].size > 0
              /\ AdapterExtract(trace[i].target, trace[i].name, trace[i].size).err = NoError
    /\ \E i \in EnumeratedEntries : "extract" \in SeqToSet(trace[i].calls)
    /\ \E i \in EnumeratedEntries :
          AdapterExtract(trace[i].target, trace[i].name, trace[i].size).err # NoError

\* The places of the trace where the enumerator of a 7-Zip archive opened it.
SevenZOpens ==
    {i \in 1..Len(trace) : trace[i].ev = "open" /\ FileIsArchiveType(trace[i].target) = ARCHIVE_7Z}

\* The entries of the archive that are no directories.
FileEntries(path) ==
    {k \in 1..Len(ArchiveFile(path).entries) : ~ArchiveFile(path).entries[k].IsDir}

\* The places of the trace where the enumerator of the scope came to an
\* entry that is no directory.
CameToFiles(target) ==
    {i \in 1..Len(trace) : trace[i].ev \in {"eval", "abort"} /\ trace[i].target = target}

C21_OpenedWithPassword ==
    /\ Done
    /\ \E k \in 1..Len(output) :
          /\ ArchivePassword(output[k].target) = pw7zip
          /\ pw7zip # ""
          /\ Len(output[k].files) = 2

\* The arguments of the command line that set a text search with a pattern
\* that is no regular expression.
MalformedPatternArgs ==
    {k \in 1..Len(args) :
        /\ FlagOf(args[k]) \in {"tc", "ti", "tr"}
        /\ RegexpSyntaxError(PatternOf(FlagOf(args[k]), ValuesOf(args[k])))}

\* C22: a command line with a malformed pattern ends the program while it
\* is parsed: list_directory is not called, no entry is enumerated and
\* nothing is reported.
C22_MalformedPatternFailsFast ==
    \A k \in MalformedPatternArgs :
        /\ stack = <<>>
        /\ output = <<>>
        /\ \A i \in 1..Len(trace) : trace[i].ev \in {"panic", "exit"}
        /\ parsed <= k
        /\ parsed = k => Len(trace) = 1

\* The parser has come to the malformed pattern, which is the last of two
\* flags, and the program has ended with a panic.
C22_Witness ==
    /\ Len(args) = 2
    /\ MalformedPatternArgs = {2}
    /\ parsed = 2
    /\ trace = <<[ev |-> "panic", target |-> "", depth |-> 0]>>

\* The traversal has been run and is over.
TraversalOver == stack = <<>> /\ trace # <<>> /\ trace[1].ev = "call"

\* The files of the subdirectory of the start directory that meet the
\* conditions of the query.
MatchingInSubdirectory ==
    {k \in 1..Len(disk[SubDir]) :
        /\ ~disk[SubDir][k].IsDir
        /\ fileMeetsConditions(makefileitem(disk[SubDir][k], SubDir), FALSE, PdftotextPath).isFound}

\* Whether the file of this name was printed in the listing of the scope.
ReportedIn(target, name) ==
    \E k \in 1..Len(output) :
        /\ output[k].target = target
        /\ \E n \in 1..Len(output[k].files) : output[k].files[n].Name = name

\* C23: a matching file in a subdirectory of the start directory is
\* reported if and only if -r is set, and without -r no subdirectory scope
\* is visited, with or without -z.
C23_SubdirectoryNeedsRecursion ==
    /\ TraversalOver =>
          \A k \in MatchingInSubdirectory :
              ReportedIn(SubDir, disk[SubDir][k].Name) <=> recurse_directories
    /\ ~recurse_directories =>
          \A i \in 1..Len(trace) :
              trace[i].ev = "call" /\ trace[i].depth > 1 => trace[i].isArchive

\* C23 for the command lines that list directories: there the file is
\* reported if and only if -r is set.
C23_WithDirectoriesListed ==
    TraversalOver /\ listdirectories =>
        \A k \in MatchingInSubdirectory :
            ReportedIn(SubDir, disk[SubDir][k].Name) <=> recurse_directories

\* C24: with the executable-only flag set, no entry that fails the
\* executable check is returned as a match, on disk or in an archive, in
\* first-match and in find-all mode.
C24_ExecutableFilterAlwaysApplied ==
    only_executables =>
        \A i \in Evals :
            trace[i].found =>
                LET info == DiskEntry(trace[i].target, trace[i].name)
                IN  info.ok /\ AnyExecutableBit(info.file.Mode)

\* C24 for the entries on disk that are neither kept as archive containers
\* nor PDF files searched in find-all mode.
C24_ExecutableFilterOnPlainFiles ==
    only_executables =>
        \A i \in Evals :
            /\ trace[i].found
            /\ ~trace[i].inArchive
            /\ ~(listFoundText /\ IsPdfName(trace[i].name))
            /\ ~(listInArchives /\ FileIsArchiveType(trace[i].name) # ARCHIVE_NA)
            => LET info == DiskEntry(trace[i].target, trace[i].name)
               IN  info.ok /\ AnyExecutableBit(info.file.Mode)

\* Whether the name ends in a dot and an extension of the exclude list,
\* upper and lower case alike.
HasExcludedExtension(name) ==
    \E k \in 1..Len(exclude_exts) : HasSuffix(ToUpper(name), "." \o exclude_exts[k])

\* The places of the trace where an entry with an excluded extension was
\* evaluated.
ExcludedEvals == {i \in Evals : HasExcludedExtension(trace[i].name)}

\* C25: with an exclude list set, every entry whose name ends in a dot and
\* a listed extension is rejected before any content search, names with a
\* base of one byte (a.mov) included.
C25_ExcludedExtensionRejected ==
    \A i \in ExcludedEvals :
        /\ ~trace[i].found
        /\ trace[i].calls = <<>>
        /\ trace[i].loaded = {}

\* C25 for the names with more than one byte before their last dot.
C25_ExcludedLongerNamesRejected ==
    \A i \in ExcludedEvals :
        LastIndex1(trace[i].name, ".") > 2 =>
            /\ ~trace[i].found
            /\ trace[i].calls = <<>>
            /\ trace[i].loaded = {}

\* The places of the trace where the iterator of a 7-Zip archive came to an
\* entry that is no directory.
SevenZEntries ==
    {i \in 1..Len(trace) :
        /\ trace[i].ev \in {"eval", "abort"}
        /\ trace[i].inArchive
        /\ FileIsArchiveType(trace[i].target) = ARCHIVE_7Z}

\* SevenZReadAll was called for the entry: its payload was decoded, or the
\* decoding failed and ended the enumeration.
Decoded(i) ==
    trace[i].ev = "abort" \/ "SevenZReadAll" \in SeqToSet(trace[i].calls)

\* The entry fails the name mask, the non-content filter of the command
\* lines of the traversal specification.
FailsNameMask(i) ==
    /\ haveGlobber
    /\ ~PassThroughScope(trace[i].target)
    /\ ~NameMatchesMask(trace[i].name)

\* C26: the 7-Zip iterator does not decode the payload of an entry that
\* fails the non-content filters, and decodes no payload at all when no
\* text search is configured.
C26_DecodedOnlyWhenRequired ==
    \A i \in SevenZEntries :
        /\ FailsNameMask(i) => ~Decoded(i)
        /\ text_search_type = SEARCH_NONE => ~Decoded(i)

\* C26 without its last part: an entry that fails the name mask is not
\* decoded, and an entry that is decoded passed it.
C26_SkippedNotDecoded ==
    \A i \in SevenZEntries : FailsNameMask(i) <=> ~Decoded(i)

\* The places of the trace where list_directory was called for a scope below
\* the start.
ChildCalls == {i \in 1..Len(trace) : trace[i].ev = "call" /\ trace[i].depth > 1}

\* The places of the trace with this event of the scope.
EventsOf(target, evs) ==
    {i \in 1..Len(trace) : trace[i].ev \in evs /\ trace[i].target = target}

\* C27: the enumerator of a scope is opened before it comes to the entries
\* and all entries are filtered before the scope is reported; a scope is
\* reported before any of its child scopes is entered; the child archives
\* are entered before the child subdirectories, and each group in ascending
\* order of the names.
C27_StepsInOrder ==
    /\ \A r \in 1..Len(trace) : trace[r].ev = "report" =>
          /\ \E o \in EventsOf(trace[r].target, {"open"}) : o < r
          /\ \A e \in EventsOf(trace[r].target, {"eval", "skip", "abort"}) :
                e < r /\ \E o \in EventsOf(trace[r].target, {"open"}) : o < e
    /\ \A j \in ChildCalls :
          /\ \E r \in EventsOf(DirOf(trace[j].target), {"report"}) :
                r < j /\ trace[r].depth = trace[j].depth - 1
          /\ Reported(DirOf(trace[j].target))
          /\ EventsOf(trace[j].target, {"open", "eval", "skip", "abort", "report"})
                \subseteq {i \in 1..Len(trace) : i > j}
    /\ \A j1, j2 \in ChildCalls :
          j1 < j2 /\ DirOf(trace[j1].target) = DirOf(trace[j2].target) =>
              /\ trace[j1].isArchive \/ ~trace[j2].isArchive
              /\ trace[j1].isArchive = trace[j2].isArchive =>
                    StrLess(BaseOf(trace[j1].target), BaseOf(trace[j2].target))

\* A run that is over in which two archives and two subdirectories of the
\* start directory were entered, which the directory holds in another order.
C27_Witness ==
    /\ TraversalOver
    /\ \E a1, a2, d1, d2 \in ChildCalls :
          /\ a1 < a2 /\ a2 < d1 /\ d1 < d2
          /\ trace[a1].isArchive /\ trace[a2].isArchive
          /\ ~trace[d1].isArchive /\ ~trace[d2].isArchive
          /\ trace[a1].target = "/r/Box.zip" /\ trace[a2].target = "/r/reel.zip"
          /\ trace[d1].target = "/r/Zoo" /\ trace[d2].target = "/r/sub"

\* The places of the trace where list_directory was called for the scope.
CallsOf(target) == EventsOf(target, {"call"})

\* The archives and the subdirectories of the directory dir that its
\* enumerator collects and the command line has the run enter.
EligibleChildren(dir) ==
    {Join(dir, disk[dir][n].Name) : n \in
        {n \in 1..Len(disk[dir]) :
            \/ listInArchives /\ IsArchive(makefileitem(disk[dir][n], dir))
            \/ /\ recurse_directories /\ disk[dir][n].IsDir /\ listdirectories
               /\ (listhidden \/ CharAt(disk[dir][n].Name, 1) # ".")}}

\* Every scope was entered at most once and returned from at most once,
\* after it was entered; a scope that has no archives or subdirectories to
\* enter returns right after its report; and when the run is over, every
\* eligible archive and subdirectory was entered and every scope entered has
\* returned, the start scope last.
EachScopeOnce ==
    /\ \A i \in 1..Len(trace) : trace[i].ev = "call" =>
          /\ Cardinality(CallsOf(trace[i].target)) = 1
          /\ Cardinality(EventsOf(trace[i].target, {"return"})) <= 1
          /\ \A r \in EventsOf(trace[i].target, {"return"}) : i < r
    /\ \A i \in 1..Len(trace) :
          /\ trace[i].ev = "report"
          /\ i < Len(trace)
          /\ (trace[i].target \notin DOMAIN disk \/ EligibleChildren(trace[i].target) = {})
          => trace[i + 1].ev = "return" /\ trace[i + 1].target = trace[i].target
    /\ TraversalOver =>
          /\ \A i \in 1..Len(trace) : trace[i].ev = "call" =>
                /\ Cardinality(EventsOf(trace[i].target, {"return"})) = 1
                /\ trace[i].target \in DOMAIN disk =>
                      \A child \in EligibleChildren(trace[i].target) : Called(child)
          /\ trace[Len(trace)].ev = "return"
          /\ trace[Len(trace)].target = start_directory

\* The number of entries the enumerator of the scope has to come to.
EntryCount(target) ==
    IF target \in DOMAIN disk THEN Len(disk[target]) ELSE Len(ArchiveFile(target).entries)

\* A scope takes no more steps than its opening, one for each of its
\* entries, its report and its return.
ScopeBounded ==
    \A i \in 1..Len(trace) : trace[i].ev = "call" =>
        Cardinality(EventsOf(trace[i].target,
                             {"open", "eval", "skip", "abort", "report", "return"}))
            <= 3 + EntryCount(trace[i].target)

\* The guards of the steps of the program: the command line is being parsed
\* or the traversal is to start, or the scope on top of the stack is to be
\* opened, has an entry to come to, is to be reported, or is in or after its
\* loops over archives and subdirectories.
CanStep ==
    \/ stack = <<>> /\ trace = <<>> /\ (parsed = Len(args) \/ isParam(args[parsed + 1]))
    \/ Running /\ Top.pc \in {"open", "report", "recurse"}
    \/ Running /\ Top.pc = "filter" /\ Top.pending # <<>>

\* C28: the traversal terminates: every step of a run adds to its
\* finite budget (an argument parsed, or an event of a scope that takes no
\* more than its entries and four more), a run stops only when main has
\* returned, every scope without children ends its branch, every
\* subdirectory and archive to enter is entered exactly once, and the run
\* ends when the start scope and all its descendants have returned.
C28_TraversalTerminates ==
    /\ [](EachScopeOnce /\ ScopeBounded /\ (Done \/ CanStep))
    /\ [][parsed' + Len(trace') > parsed + Len(trace)]_vars

\* A run that is over in which the two archives and the two subdirectories
\* of the start directory were entered and have returned.
C28_Witness ==
    /\ TraversalOver
    /\ Cardinality({i \in 1..Len(trace) : trace[i].ev = "call"}) = 5
    /\ Cardinality({i \in 1..Len(trace) : trace[i].ev = "return"}) = 5
    /\ Called("/r/Zoo") /\ Called("/r/reel.zip")

\* The number of excerpts in the text a find-all search gives back: each
\* excerpt is part of one line and is written with its line end.
ExcerptCount(text) == Cardinality({k \in 1..Len(text) : CharAt(text, k) = "\n"})

\* The number of occurrences of the pattern in the bytes of a file, as
\* FindAllStringIndex counts them in its lines.
Occurrences(regex, raw) == ExcerptCount(matchTextBuffer(regex, raw, TRUE).text)

\* The files on disk a run in find-all mode searched with the chunked search.
FindAllDiskSearches ==
    {i \in DiskSearchEvals :
        listFoundText /\ "diskFileTextSearch" \in SeqToSet(trace[i].calls)}

\* C29: in find-all mode the chunked disk search gives exactly one excerpt
\* for each occurrence of the pattern in the file, none twice and none from
\* bytes an earlier block left in the buffer, whatever the length of the
\* last read.
C29_OneExcerptPerOccurrence ==
    \A i \in FindAllDiskSearches :
        ExcerptCount(DiskSearch(DiskItemAt(i), TRUE).text)
            = Occurrences(text_regex, RawOf(FALSE, trace[i].target, trace[i].name))

\* The same for the files that are read in one block.
C29_OneBlockFiles ==
    \A i \in FindAllDiskSearches :
        trace[i].size <= ChunkSize =>
            ExcerptCount(DiskSearch(DiskItemAt(i), TRUE).text)
                = Occurrences(text_regex, RawOf(FALSE, trace[i].target, trace[i].name))

\* The step is a descent into an archive: list_directory is called for it
\* from the loop over the archives of a scope.
ArchiveEntered ==
    /\ Running
    /\ Len(stack') = Len(stack) + 1
    /\ stack'[Len(stack')].isArchive

\* The step is the return of list_directory from an archive it descended
\* into.
ArchiveLeft ==
    /\ Len(stack) > 1
    /\ Top.isArchive
    /\ Len(stack') = Len(stack) - 1

\* C30: skipArchiveEntryMask is scoped to one descent into an archive: it is
\* not set when the descent begins, after the return from the archive it is
\* again as it was before the descent, and it is not set whenever the
\* enumerator of a directory scope comes to an entry.
C30_FlagScopedToDescent ==
    /\ [][ArchiveEntered => ~skipArchiveEntryMask]_vars
    /\ [][ArchiveLeft => ~skipArchiveEntryMask']_vars
    /\ [](Running /\ ~Top.isArchive /\ Top.pc = "filter" => ~skipArchiveEntryMask)

\* The enumerator of a subdirectory comes to an entry after list_directory
\* has returned from an archive that was entered in pass-through mode.
C30_Witness ==
    /\ Running /\ Len(stack) > 1
    /\ ~Top.isArchive /\ Top.pc = "filter" /\ Top.pending # <<>>
    /\ ~skipArchiveEntryMask
    /\ \E i \in 1..Len(trace) :
          /\ trace[i].ev = "return"
          /\ PassThroughScope(trace[i].target)
          /\ \E j \in 1..(i - 1) :
                /\ trace[j].ev = "call" /\ trace[j].target = trace[i].target
                /\ trace[j].isArchive

=====================
